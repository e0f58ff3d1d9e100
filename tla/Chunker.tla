------------------------------ MODULE Chunker -------------------------------
(* pkg/chunk: the content-defined RabinChunker, driven byte by byte by a    *)
(* reader that may fail, and SplitFile.  No command calls the package.      *)
(* The rolling hash works on machine words: products wrap at the word's     *)
(* size before they are reduced by the prime.  The code has Base = 256,     *)
(* WordBytes = 8 and Mod = 2^61 - 1; an instance scales the three together. *)
EXTENDS Integers, SequencesExt

CONSTANTS
  Base, WordBytes, Mod,
  MinMaskBits, MaxMaskBits,       \* 8 and 62
  CkDefaults,                     \* the sizes and window normalize falls back to
  CkRequests,                     \* the Params callers ask for
  CkBytes, CkMaxInput, CkMaxErrors,   \* the bytes read, and bounds
  CkNil

(* Params has int fields; the defaults of normalize are positive.           *)
ParamsOf(S) == [min : S, avg : S, max : S, window : S]

ASSUME CkAssumption ==
  /\ CkDefaults \in ParamsOf(Nat \ {0})
  /\ CkRequests \subseteq ParamsOf(Int) /\ CkNil \notin CkRequests
  /\ CkMaxInput \in Nat

(* A word holds WordBytes digits of the base.                               *)
Power[n \in 0..WordBytes] == IF n = 0 THEN 1 ELSE Base * Power[n - 1]

(* The prime has as many digits as a word, and the sum of two hashes fits.  *)
ASSUME HashAssumption ==
  /\ Base \in Nat /\ Base > 1 /\ CkBytes \subseteq 0..(Base - 1)
  /\ WordBytes \in Nat \ {0}
  /\ Mod \in Nat /\ Power[WordBytes - 1] < Mod /\ 2 * Mod <= Power[WordBytes]

VARIABLES
  ckRequest,    \* Params as given, or CkNil before NewRabinChunker
  ckParams,     \* Params after normalize
  ckInput,      \* history: every byte read
  ckBuf,        \* bytes of the chunk Next is collecting
  ckHash, ckWindow,   \* the rolling hash and the bytes it should cover
  ckOffset,
  ckChunks,     \* chunks returned by Next, with ckLost at that time
  ckErrors,     \* read errors so far
  ckLost,       \* history: how many bytes were read and dropped
  ckEof

ckVars ==
  <<ckRequest, ckParams, ckInput, ckBuf, ckHash, ckWindow, ckOffset, ckChunks,
    ckErrors, ckLost, ckEof>>

CkInit ==
  /\ ckRequest = CkNil /\ ckParams = CkNil
  /\ ckInput = <<>> /\ ckBuf = <<>> /\ ckHash = 0 /\ ckWindow = <<>>
  /\ ckOffset = 0 /\ ckChunks = <<>> /\ ckErrors = 0 /\ ckLost = 0 /\ ckEof = FALSE

-----------------------------------------------------------------------------
(* Parameters.                                                              *)

Normalize(p) ==
  LET given == [k \in DOMAIN p |-> IF p[k] <= 0 THEN CkDefaults[k] ELSE p[k]]
      avg == IF given.min > given.avg THEN given.min ELSE given.avg
      max == IF avg > given.max THEN avg ELSE given.max
  IN  [given EXCEPT !.avg = avg, !.max = max]

(* DiffConfig.Validate, as far as it is about the chunker.                  *)
ValidChunking(p) ==
  /\ \A k \in DOMAIN p : p[k] > 0
  /\ p.min <= p.avg /\ p.avg <= p.max

(* bits.Len of avg, kept within the bounds, less one: the mask's width.     *)
MaskBits(avg) ==
  LET bits == CHOOSE n \in 1..avg : 2^(n - 1) <= avg /\ avg < 2^n
  IN  (IF bits < MinMaskBits THEN MinMaskBits
       ELSE IF bits > MaxMaskBits THEN MaxMaskBits ELSE bits) - 1

-----------------------------------------------------------------------------
(* The rolling hash.                                                        *)

Word(n) == n % Power[WordBytes]

(* A newRollingHash whose loop runs window times.                           *)
PowTooFar(window) ==
  LET pow[i \in 0..window] == IF i = 0 THEN 1 ELSE Word(pow[i - 1] * Base) % Mod
  IN  pow[window]

(* pow = base^(window-1) as newRollingHash computes it.                     *)
Pow(window) ==
  LET pow[i \in 0..(window - 1)] == IF i = 0 THEN 1 ELSE Word(pow[i - 1] * Base) % Mod
  IN  pow[window - 1]

(* The outgoing byte leaves the hash.                                       *)
Evict(hash, byte, window) ==
  Word(hash + Mod - (Word(byte * Pow(window)) % Mod)) % Mod

Append1(hash, byte) == Word(Word(hash * Base) + byte) % Mod

Push(byte) ==
  LET full == Len(ckWindow) = ckParams.window
  IN  /\ ckWindow' = Append(IF full THEN Tail(ckWindow) ELSE ckWindow, byte)
      /\ ckHash' = Append1(IF full THEN Evict(ckHash, ckWindow[1], ckParams.window)
                           ELSE ckHash, byte)

-----------------------------------------------------------------------------
NewRabinChunker(p) ==
  /\ ckRequest = CkNil
  /\ ckRequest' = p /\ ckParams' = Normalize(p)
  /\ UNCHANGED <<ckInput, ckBuf, ckHash, ckWindow, ckOffset, ckChunks, ckErrors, ckLost,
                 ckEof>>

Reading == ckParams # CkNil /\ ~ckEof

(* The hash is at a boundary: its bits under the mask are zero.             *)
AtBoundary(hash) == hash % 2^MaskBits(ckParams.avg) = 0

EmitChunk(data) ==
  /\ ckChunks' = Append(ckChunks, [offset |-> ckOffset, data |-> data, lost |-> ckLost])
  /\ ckOffset' = ckOffset + Len(data)
  /\ ckBuf' = <<>>

(* A cut rule that looks at the hash before the minimum size is reached.    *)
CutsEarly(buf, hash) == AtBoundary(hash) \/ Len(buf) >= ckParams.max

Cuts(buf, hash) ==
  Len(buf) >= ckParams.min /\ (AtBoundary(hash) \/ Len(buf) >= ckParams.max)

(* One turn of Next's loop that reads a byte, with its return at a cut.     *)
NextByte(b) ==
  LET buf == Append(ckBuf, b)
  IN  /\ Reading /\ Len(ckInput) < CkMaxInput
      /\ ckInput' = Append(ckInput, b)
      /\ Push(b)
      /\ IF Cuts(buf, ckHash') THEN EmitChunk(buf)
         ELSE ckBuf' = buf /\ UNCHANGED <<ckChunks, ckOffset>>
      /\ UNCHANGED <<ckRequest, ckParams, ckErrors, ckLost, ckEof>>

(* A Next that reports the end of the input without its last chunk.         *)
EofDropsRest ==
  /\ Reading /\ ckEof' = TRUE /\ ckBuf' = <<>>
  /\ UNCHANGED <<ckChunks, ckOffset>>
  /\ UNCHANGED <<ckRequest, ckParams, ckInput, ckHash, ckWindow, ckErrors, ckLost>>

(* The input ends: what was collected is the last chunk.                    *)
NextEof ==
  /\ Reading /\ ckEof' = TRUE
  /\ IF ckBuf = <<>> THEN UNCHANGED <<ckBuf, ckChunks, ckOffset>> ELSE EmitChunk(ckBuf)
  /\ UNCHANGED <<ckRequest, ckParams, ckInput, ckHash, ckWindow, ckErrors, ckLost>>

(* Next returns a read error and drops what it had collected; the caller    *)
(* may call it again.                                                       *)
NextReadError ==
  /\ Reading /\ ckErrors < CkMaxErrors
  /\ ckErrors' = ckErrors + 1 /\ ckBuf' = <<>> /\ ckLost' = ckLost + Len(ckBuf)
  /\ UNCHANGED <<ckRequest, ckParams, ckInput, ckHash, ckWindow, ckOffset, ckChunks, ckEof>>

CkNext ==
  \/ \E p \in CkRequests : NewRabinChunker(p)
  \/ \E b \in CkBytes : NextByte(b)
  \/ NextEof
  \/ NextReadError

CkSpec == CkInit /\ [][CkNext]_ckVars

-----------------------------------------------------------------------------
(* Fixed-size chunks.                                                       *)

(* A SplitFile that forgets the short chunk at the end.                     *)
SplitWhole(data, size) ==
  IF data = <<>> THEN <<>>
  ELSE IF size <= 0 THEN <<data>>
  ELSE [i \in 1..(Len(data) \div size) |-> SubSeq(data, (i - 1) * size + 1, i * size)]

SplitFile(data, size) ==
  IF data = <<>> THEN <<>>
  ELSE IF size <= 0 THEN <<data>>
  ELSE [i \in 1..((Len(data) + size - 1) \div size) |->
          SubSeq(data, (i - 1) * size + 1,
                 IF i * size > Len(data) THEN Len(data) ELSE i * size)]

ReassembleChunks(chunks) == FlattenSeq(chunks)

(* A hash is the data itself, so that equal hashes mean equal data.         *)
CreateMetadata(data, chunks) ==
  [i \in DOMAIN chunks |-> [fileHash |-> data, size |-> Len(chunks[i]), hash |-> chunks[i]]]

VerifyChunks(chunks, fileHash) == ReassembleChunks(chunks) = fileHash

VerifyChunkIntegrity(chunk, meta) == chunk = meta.hash /\ Len(chunk) = meta.size

-----------------------------------------------------------------------------
(* Where a chunk's bytes begin in the input.                                *)
PlaceOf(c) == c.offset + c.lost

(* If no read failed, the chunks Next has returned and the one it collects  *)
(* are the input, each chunk at its Offset.  After failed reads every chunk *)
(* is still a piece of the input as it was read, moved from its Offset by   *)
(* just as many bytes as Next had read and dropped before it, and each byte *)
(* read was returned, is being collected, or was dropped.                   *)
ChunksAreTheInput ==
  LET whole == ReassembleChunks([i \in DOMAIN ckChunks |-> ckChunks[i].data])
  IN  /\ ckErrors = 0 => whole \o ckBuf = ckInput /\ ckLost = 0
      /\ \A i \in DOMAIN ckChunks :
           LET c == ckChunks[i]
           IN  /\ SubSeq(ckInput, PlaceOf(c) + 1, PlaceOf(c) + Len(c.data)) = c.data
               /\ c.lost <= ckLost
      /\ Len(ckInput) = Len(whole) + ckLost + Len(ckBuf)
      /\ ckOffset = Len(whole)

(* Next "never holds more than MaxSize bytes in memory for a single chunk"  *)
(* and cuts none before MinSize but at the end: for what the caller asked   *)
(* for if the configuration is one that Validate accepts, and for what      *)
(* normalize made of it otherwise.                                          *)
ChunkSizesBounded ==
  ckRequest # CkNil =>
    LET bound == IF ValidChunking(ckRequest) THEN ckRequest ELSE ckParams
    IN  /\ Len(ckBuf) < bound.max
        /\ \A i \in DOMAIN ckChunks :
             /\ Len(ckChunks[i].data) <= bound.max
             /\ Len(ckChunks[i].data) >= bound.min \/ (ckEof /\ i = Len(ckChunks))
        /\ bound.min <= bound.max

(* The hash of some bytes, none of them taken out again.                    *)
HashOf(bytes) ==
  LET hash[n \in 0..Len(bytes)] == IF n = 0 THEN 0 ELSE Append1(hash[n - 1], bytes[n])
  IN  hash[Len(bytes)]

(* config.go: "ChunkHashWindow controls the rolling hash window size in     *)
(* bytes".  The hash that decides on a boundary is that of the last         *)
(* "window" bytes, so equal content is cut alike wherever it stands.        *)
HashIsOfWindow == ckRequest # CkNil => ckHash = HashOf(ckWindow)

(* So it is for a window that fits a word, up to 8 bytes: no product of the *)
(* hash's update wraps in a way that the prime does not see.                *)
ShortWindowRolls ==
  ckRequest # CkNil /\ ckParams.window <= WordBytes => ckHash = HashOf(ckWindow)

(* For a longer one, the default of 64 too, base^(window-1) has wrapped to  *)
(* 0 and no byte ever leaves the hash: it is that of all the input.         *)
HashCovers ==
  ckRequest # CkNil =>
    ckHash = HashOf(IF ckParams.window <= WordBytes THEN ckWindow ELSE ckInput)

(* SplitFile and ReassembleChunks are inverse for every file and chunk      *)
(* size, and no chunk is longer than the size.  Chunks in which two have    *)
(* changed places pass VerifyChunkIntegrity one by one only if the two are  *)
(* the same, and then they pass VerifyChunks as well.                       *)
SplitRoundTrips ==
  \A size \in 0..(CkMaxInput + 1) :
    LET chunks == SplitFile(ckInput, size)
        meta == CreateMetadata(ckInput, chunks)
        Swap(i, j) == [chunks EXCEPT ![i] = chunks[j], ![j] = chunks[i]]
    IN  /\ ReassembleChunks(chunks) = ckInput
        /\ size > 0 => \A i \in DOMAIN chunks : Len(chunks[i]) \in 1..size
        /\ \A i, j \in DOMAIN chunks :
             LET whole == VerifyChunks(Swap(i, j), meta[1].fileHash)
                 each == \A k \in DOMAIN chunks : VerifyChunkIntegrity(Swap(i, j)[k], meta[k])
             IN  (each => whole) /\ (each <=> chunks[i] = chunks[j])

-----------------------------------------------------------------------------
(* The inductive invariant, in parts.                                       *)

ChunkRecords == [offset : Nat, data : Seq(CkBytes), lost : Nat]

CkTypeOK ==
  /\ ckRequest \in CkRequests \cup {CkNil}
  /\ ckParams = IF ckRequest = CkNil THEN CkNil ELSE Normalize(ckRequest)
  /\ ckInput \in Seq(CkBytes) /\ ckBuf \in Seq(CkBytes)
  /\ ckChunks \in Seq(ChunkRecords)
  /\ ckErrors \in Nat /\ ckLost \in Nat /\ ckEof \in BOOLEAN
  /\ ckRequest = CkNil => ckBuf = <<>> /\ ckChunks = <<>>

(* What Next has collected and returned, for the normalized parameters.     *)
CkSizesOK ==
  ckRequest # CkNil =>
    /\ Len(ckBuf) < ckParams.max
    /\ \A i \in DOMAIN ckChunks :
         /\ Len(ckChunks[i].data) <= ckParams.max
         /\ Len(ckChunks[i].data) >= ckParams.min \/ (ckEof /\ i = Len(ckChunks))

(* No chunk reaches into what comes after it, and what is collected is the  *)
(* end of the input.                                                        *)
CkPlacesOK ==
  /\ ckOffset \in Nat
  /\ \A i \in DOMAIN ckChunks : PlaceOf(ckChunks[i]) + Len(ckChunks[i].data) <= ckOffset + ckLost
  /\ SubSeq(ckInput, ckOffset + ckLost + 1, ckOffset + ckLost + Len(ckBuf)) = ckBuf

(* The window holds the last bytes pushed, and no more than it may.         *)
CkHashOK ==
  /\ ckWindow \in Seq(CkBytes)
  /\ ckRequest = CkNil => ckWindow = <<>> /\ ckInput = <<>> /\ ckHash = 0
  /\ ckRequest # CkNil => Len(ckWindow) <= ckParams.window
  /\ HashCovers

CkIndInv == CkTypeOK /\ CkSizesOK /\ CkPlacesOK /\ ChunksAreTheInput
=============================================================================
