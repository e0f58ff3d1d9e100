---------------------------- MODULE MCComponents ----------------------------
(* The parts of diffkeeper that share no state with each other, in one      *)
(* instance for TLC: "active" says which of them moves in a behaviour, so   *)
(* their state spaces add up and do not multiply.                           *)
EXTENDS MCExport, MCChunker, Merkle, Profiler, Metrics, BTFLoader, DiffChain,
        CASStore, SelfCapture, EbpfManager

VARIABLE active

MCNext ==
  \/ /\ active = "export" /\ ExNext
     /\ UNCHANGED <<ckVars, mkVars, prVars, meVars, btVars, dcVars, csVars, scVars, vars, active>>
  \/ /\ active = "chunker" /\ CkNext
     /\ UNCHANGED <<exVars, mkVars, prVars, meVars, btVars, dcVars, csVars, scVars, vars, active>>
  \/ /\ active = "merkle" /\ MkNext
     /\ UNCHANGED <<exVars, ckVars, prVars, meVars, btVars, dcVars, csVars, scVars, vars, active>>
  \/ /\ active = "profiler" /\ PrNext
     /\ UNCHANGED <<exVars, ckVars, mkVars, meVars, btVars, dcVars, csVars, scVars, vars, active>>
  \/ /\ active = "observers" /\ MeObserve
     /\ UNCHANGED <<exVars, ckVars, mkVars, prVars, btVars, dcVars, csVars, scVars, vars, active>>
  \/ /\ active = "endpoint" /\ MeEndpoint
     /\ UNCHANGED <<exVars, ckVars, mkVars, prVars, btVars, dcVars, csVars, scVars, vars, active>>
  \/ /\ active = "btf" /\ BtNext
     /\ UNCHANGED <<exVars, ckVars, mkVars, prVars, meVars, dcVars, csVars, scVars, vars, active>>
  \/ /\ active = "diff" /\ DcNext
     /\ UNCHANGED <<exVars, ckVars, mkVars, prVars, meVars, btVars, csVars, scVars, vars, active>>
  \/ /\ active = "store" /\ CsNext
     /\ UNCHANGED <<exVars, ckVars, mkVars, prVars, meVars, btVars, dcVars, scVars, vars, active>>
  \/ /\ active = "session" /\ ScNext
     /\ UNCHANGED <<exVars, ckVars, mkVars, prVars, meVars, btVars, dcVars, csVars, vars, active>>
  \/ /\ active = "ebpf" /\ Next
     /\ UNCHANGED <<exVars, ckVars, mkVars, prVars, meVars, btVars, dcVars, csVars, scVars, active>>

MCInit ==
  /\ ExInit /\ CkInit /\ MkInit /\ PrInit /\ MeInit /\ BtInit /\ DcInit /\ CsInit /\ ScInit /\ Init
  /\ active \in {"export", "chunker", "merkle", "profiler", "observers",
                 "endpoint", "btf", "diff", "store", "session", "ebpf"}
  /\ scInside \/ scBad # {} => active = "session"

allVars == <<exVars, ckVars, mkVars, prVars, meVars, btVars, dcVars, csVars, scVars, vars, active>>

(* The fairness of Metrics, SelfCapture and EbpfManager, where they are     *)
(* what moves.                                                              *)
AtEndpoint(A) ==
  active = "endpoint" /\ A
    /\ UNCHANGED <<exVars, ckVars, mkVars, prVars, btVars, dcVars, csVars, scVars, vars, active>>

InSession(A) ==
  active = "session" /\ A
    /\ UNCHANGED <<exVars, ckVars, mkVars, prVars, meVars, btVars, dcVars, csVars, vars, active>>

InManager(A) ==
  active = "ebpf" /\ A
    /\ UNCHANGED <<exVars, ckVars, mkVars, prVars, meVars, btVars, dcVars, csVars, scVars, active>>

MCSpec ==
  /\ MCInit /\ [][MCNext]_allVars
  /\ WF_allVars(AtEndpoint(MeServeStep)) /\ WF_allVars(AtEndpoint(MeCloserStep))
  /\ WF_allVars(AtEndpoint(MeAnswer))
  /\ WF_allVars(InSession(ScWatcher)) /\ WF_allVars(InSession(ScProcess))
  /\ WF_allVars(InManager(Start)) /\ WF_allVars(InManager(CancelContext))
  /\ \A s \in Streams : WF_allVars(InManager(Consumer(s)))
=============================================================================
