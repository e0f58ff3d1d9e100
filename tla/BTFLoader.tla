----------------------------- MODULE BTFLoader ------------------------------
(* pkg/ebpf/btf_loader_linux.go: finding the kernel's BTF for the eBPF      *)
(* manager, in the system, in the cache directory, or at BTFHub.  Several   *)
(* diffkeeper processes of a host share the cache directory, any of them    *)
(* may be killed, and nothing but the loader writes there.                  *)
EXTENDS Integers, FiniteSets

CONSTANTS
  BtProcs,
  BtMaxLoads,     \* bound on the calls of LoadSpec
  BtNil

ASSUME BtConstants ==
  IsFiniteSet(BtProcs) /\ BtMaxLoads \in Nat /\ BtNil \notin BtProcs

VARIABLES
  btHost,       \* what the host offers, or BtNil before it is known
  btPc,         \* process -> "idle" | "request" | "fetch" | "extract" | "copy" | "parse"
  btCache,      \* the cached file: "absent" | "part" | "whole"
  btOwner,      \* the process whose os.Create truncated it last
  btTempFiles,  \* temporary files in the cache directory
  btResult,     \* process -> outcome of its last LoadSpec
  btKilled,     \* history: processes killed while they had a temporary file
  btBroken,     \* history: an extraction failed or was killed half way
  btOverlap,    \* history: two calls of LoadSpec have overlapped
  btLoads

btVars == <<btHost, btPc, btCache, btOwner, btTempFiles, btResult, btKilled,
            btBroken, btOverlap, btLoads>>
btHistory == <<btKilled, btBroken, btOverlap, btLoads>>

Results == {"none", "spec", "no BTF", "I/O error", "damaged"}

BtInit ==
  /\ btHost = BtNil /\ btPc = [p \in BtProcs |-> "idle"]
  /\ btCache = "absent" /\ btOwner = BtNil /\ btTempFiles = 0
  /\ btResult = [p \in BtProcs |-> "none"]
  /\ btKilled = 0 /\ btBroken = FALSE /\ btOverlap = FALSE /\ btLoads = 0

(* The kernel has BTF; normalizeArch knows the architecture; the            *)
(* configuration allows downloads.                                          *)
Hosts == [system : BOOLEAN, arch : BOOLEAN, allowDownload : BOOLEAN]

BtBoot(host) ==
  /\ btHost = BtNil /\ btHost' = host
  /\ UNCHANGED <<btPc, btCache, btOwner, btTempFiles, btResult, btHistory>>

-----------------------------------------------------------------------------
BtGo(p, pc) == btPc' = [btPc EXCEPT ![p] = pc]

BtReturn(p, result) ==
  BtGo(p, "idle") /\ btResult' = [btResult EXCEPT ![p] = result]

(* btf.LoadSpec(cachedPath): the outcome is returned whatever it is.  A     *)
(* whole file may still not be readable, or be one that BTFHub published    *)
(* damaged; "damaged" is what only the loader itself is to blame for.       *)
Parse(p) ==
  \/ btCache = "whole" /\ BtReturn(p, "spec")
  \/ btCache # "whole" /\ BtReturn(p, "damaged")
  \/ BtReturn(p, "I/O error")

(* A LoadSpec that does not look into the cache.                            *)
LookupSkipsCache(p) ==
  \/ btHost.system /\ BtReturn(p, "spec")
  \/ ~btHost.system /\ BtReturn(p, "I/O error")
  \/ ~btHost.system /\ ~btHost.arch /\ BtReturn(p, "no BTF")
  \/ ~btHost.system /\ btHost.arch /\ btHost.allowDownload
       /\ BtGo(p, "request") /\ UNCHANGED btResult

(* System BTF; then the cache directory and detectKernelInfo, each of which *)
(* may fail (the latter on every host of an architecture BTFHub lacks, even *)
(* if the cache has the file); then the cached file; then a download.       *)
Lookup(p) ==
  \/ btHost.system /\ BtReturn(p, "spec")
  \/ /\ ~btHost.system
     /\ \/ BtReturn(p, "I/O error")
        \/ ~btHost.arch /\ BtReturn(p, "no BTF")
        \/ btHost.arch /\ btCache # "absent" /\ Parse(p)
        \/ /\ btHost.arch /\ btCache = "absent"
           /\ IF btHost.allowDownload THEN BtGo(p, "request") /\ UNCHANGED btResult
              ELSE BtReturn(p, "no BTF")

LoadSpec(p) ==
  /\ btHost # BtNil /\ btPc[p] = "idle"
  /\ btLoads < BtMaxLoads /\ btLoads' = btLoads + 1
  /\ btOverlap' = (btOverlap \/ \E q \in BtProcs : btPc[q] # "idle")
  /\ Lookup(p)
  /\ UNCHANGED <<btHost, btCache, btOwner, btTempFiles, btKilled, btBroken>>

(* downloadAndCache: the request, and the temporary file for its answer.    *)
Request(p) ==
  /\ btPc[p] = "request"
  /\ \/ BtReturn(p, "I/O error") /\ UNCHANGED btTempFiles
     \/ BtGo(p, "fetch") /\ btTempFiles' = btTempFiles + 1 /\ UNCHANGED btResult
  /\ UNCHANGED <<btHost, btCache, btOwner, btHistory>>

(* Between its creation and its removal a process has a temporary file.     *)
HasTemp(p) == btPc[p] \in {"fetch", "extract", "copy"}

(* A removal of the temporary file that only the good path comes to.        *)
RemoveIfDone(done) == btTempFiles' = btTempFiles - (IF done THEN 1 ELSE 0)

(* The deferred removal of the temporary file, however the download ends.   *)
DeferredRemove(done) == btTempFiles' = btTempFiles - 1

Fetch(p) ==
  /\ btPc[p] = "fetch"
  /\ \/ BtReturn(p, "I/O error") /\ DeferredRemove(FALSE)
     \/ BtGo(p, "extract") /\ UNCHANGED <<btResult, btTempFiles>>
  /\ UNCHANGED <<btHost, btCache, btOwner, btHistory>>

(* extractBTFArchive finds no .btf file, or writeFileFromTar creates the    *)
(* cached file under its final name, empty.                                 *)
Extract(p) ==
  /\ btPc[p] = "extract"
  /\ \/ /\ BtReturn(p, "I/O error") /\ DeferredRemove(FALSE)
        /\ UNCHANGED <<btCache, btOwner>>
     \/ /\ BtGo(p, "copy") /\ btCache' = "part" /\ btOwner' = p
        /\ UNCHANGED <<btResult, btTempFiles>>
  /\ UNCHANGED <<btHost, btHistory>>

(* A copy whose last block stays in a buffer.                               *)
CopiedShort(p) == btCache

(* Two processes write the same bytes through descriptors of their own, so  *)
(* the file is whole once the one that truncated it last is done.           *)
Copied(p) == IF btOwner = p THEN "whole" ELSE btCache

(* io.Copy fails half way, and what it wrote stays; or it is done and Chmod *)
(* fails; or the file is ready.                                             *)
CopyFromTar(p) ==
  /\ btPc[p] = "copy"
  /\ \/ /\ BtReturn(p, "I/O error") /\ DeferredRemove(FALSE)
        /\ btBroken' = TRUE /\ UNCHANGED btCache
     \/ /\ BtReturn(p, "I/O error") /\ DeferredRemove(FALSE)
        /\ btCache' = Copied(p) /\ UNCHANGED btBroken
     \/ /\ BtGo(p, "parse") /\ DeferredRemove(TRUE)
        /\ btCache' = Copied(p) /\ UNCHANGED <<btResult, btBroken>>
  /\ UNCHANGED <<btHost, btOwner, btKilled, btOverlap, btLoads>>

LoadCached(p) ==
  /\ btPc[p] = "parse" /\ Parse(p)
  /\ UNCHANGED <<btHost, btCache, btOwner, btTempFiles, btHistory>>

(* The process is killed: no deferred call runs.                            *)
Kill(p) ==
  /\ btPc[p] # "idle" /\ BtReturn(p, "none")
  /\ btKilled' = btKilled + (IF HasTemp(p) THEN 1 ELSE 0)
  /\ btBroken' = (btBroken \/ btPc[p] = "copy")
  /\ UNCHANGED <<btHost, btCache, btOwner, btTempFiles, btOverlap, btLoads>>

BtNext ==
  \/ \E h \in Hosts : BtBoot(h)
  \/ \E p \in BtProcs : LoadSpec(p) \/ Request(p) \/ Fetch(p) \/ Extract(p)
                          \/ CopyFromTar(p) \/ LoadCached(p) \/ Kill(p)

BtSpec == BtInit /\ [][BtNext]_btVars

-----------------------------------------------------------------------------
(* The types the proofs rest on.                                            *)
BtTypeOK ==
  /\ btPc \in [BtProcs -> {"idle", "request", "fetch", "extract", "copy", "parse"}]
  /\ btResult \in [BtProcs -> Results]
  /\ btCache \in {"absent", "part", "whole"}
  /\ btTempFiles \in Int /\ btKilled \in Nat

(* The temporary files in the cache directory are those of the downloads    *)
(* under way and of killed processes: no error path leaves one behind.      *)
TempFilesRemoved == btTempFiles = btKilled + Cardinality({p \in BtProcs : HasTemp(p)})

(* A process that has the cache to itself finds in it less of the file than *)
(* BTFHub published only if an earlier extraction failed or was killed half *)
(* way, and never because a good load was repeated.  The loader writes the  *)
(* file under its final name and takes any file there for a good one, so    *)
(* after such an extraction every later load fails.                         *)
DamagedOnlyIfBroken ==
  \A p \in BtProcs : btResult[p] = "damaged" => btBroken \/ btOverlap

(* A whole file in the cache stays whole, through every later load, failure *)
(* and kill, unless two loads overlapped and one truncated it anew.         *)
WholeStaysWhole ==
  [][btCache = "whole" /\ btCache' # "whole" => btOverlap]_btVars

(* Why: as long as no two loads overlap, one process at most is loading; it *)
(* downloads only while the cache is empty, copies into a file it created   *)
(* itself, parses a file it finished, and only a broken extraction leaves a *)
(* partial file behind.                                                     *)
LoneLoader ==
  ~btOverlap =>
    \A p \in BtProcs :
      /\ btPc[p] # "idle" => \A q \in BtProcs \ {p} : btPc[q] = "idle"
      /\ btPc[p] \in {"request", "fetch", "extract"} => btCache = "absent"
      /\ btPc[p] = "copy" => btOwner = p
      /\ btPc[p] = "parse" => btCache = "whole"

PartIsBroken ==
  ~btOverlap /\ btCache = "part" =>
    btBroken \/ \E p \in BtProcs : btPc[p] = "copy"
=============================================================================
