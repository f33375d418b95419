----------------------------- MODULE FetchProofs ----------------------------
(***************************************************************************)
(* Theorems about FetchTransfer, for any number of callers, any contents and  *)
(* any chunk size.                                                          *)
(***************************************************************************)
EXTENDS FetchTransfer, SequenceTheorems, TLAPS

(* Only who has the file open can be left with an old one. *)
OldIsRead ==
  \A c \in Callers : call[c].old => call[c].pc = "read" /\ since[c] = "rewritten"

(* A file that was found once can only be gone since. *)
GoneIsRewritten ==
  \A c \in Callers : gone /\ call[c].pc \in {"stat", "open", "read"} => since[c] = "rewritten"

(* A client asks for no tail, starts with an empty copy and is sent bytes. *)
ClientsStartEmpty ==
  \A c \in Clients :
    ~call[c].tail /\ (call[c].pc = "idle" => temp[c] = <<>>) /\ call[c].data \in Seq(Bytes)

(* The size that a caller was told, and the answer it holds. *)
Sized(c) == call[c].pc \in {"open", "read", "receive"} \/ (call[c].pc = "done" /\ c \in Readers)
Answered(c) == call[c].pc = "receive" \/ (call[c].pc = "done" /\ c \in Readers)

AsSent(c, s) == IF c \in Readers THEN Decoded(s) ELSE s

(* While the job does not rewrite its file, what a caller saw of it stays true. *)
Told(c) ==
  since[c] # "rewritten" =>
    /\ call[c].pc \in InFlight \cup {"done"} => began[c] <= Len(file)
    /\ Sized(c) => /\ began[c] <= call[c].size /\ call[c].size <= Len(file)
                   /\ call[c].tail => call[c].offset <= call[c].size
    /\ Answered(c) =>
         /\ call[c].next = Start(c) + Len(call[c].data) /\ call[c].next <= Len(file)
         /\ call[c].data = AsSent(c, SubSeq(file, Start(c) + 1, call[c].next))
    /\ call[c].pc = "receive" /\ call[c].eof => call[c].next >= call[c].size

Copied(c) ==
  since[c] # "rewritten" =>
    /\ call[c].pc \in InFlight \cup {"done"} => IsPrefix(temp[c], file)
    /\ call[c].pc \in {"collected", "done"} => Len(temp[c]) >= began[c]

(* The destination has the copy of a client that is done; there is one as soon as a
   client is done, and who is or was under way since is among its rivals. *)
DestinationIsCopied ==
  /\ dest.by # NoClient => call[dest.by].pc = "done" /\ dest.bytes = temp[dest.by]
  /\ dest.by # NoClient =>
       \A c \in Clients : call[c].pc \in InFlight \cup {"done"} => c \in dest.rivals
  /\ \A c \in Clients : call[c].pc = "done" => dest.by # NoClient

FetchInv ==
  /\ TypeOK
  /\ OldIsRead
  /\ GoneIsRewritten
  /\ ClientsStartEmpty
  /\ OffsetIsLength
  /\ DestinationIsCopied
  /\ \A c \in Callers : Told(c)
  /\ \A c \in Clients : Copied(c)

-----------------------------------------------------------------------------
LEMMA ContentsAreSeqs ==
  ASSUME NEW f \in Contents
  PROVE  f \in Seq(Bytes) /\ Len(f) \in Nat /\ Len(f) <= MaxLen
<1>1. PICK n \in 0 .. MaxLen : f \in [1 .. n -> Bytes]
  BY DEF Contents
<1>2. n \in Nat
  BY MaxLenAssumption
<1>3. f \in Seq(Bytes)
  BY <1>1, <1>2, SeqDef
<1>4. Len(f) = n
  BY <1>1, <1>2, <1>3, LenProperties
<1> QED
  BY <1>2, <1>3, <1>4

LEMMA GrownIsContent ==
  ASSUME NEW f \in Contents, NEW b \in Bytes, Len(f) < MaxLen
  PROVE  Append(f, b) \in Contents
<1>1. f \in Seq(Bytes) /\ Len(f) \in Nat
  BY ContentsAreSeqs
<1>2. Append(f, b) \in Seq(Bytes) /\ Len(Append(f, b)) = Len(f) + 1
  BY <1>1, AppendProperties
<1>3. Append(f, b) \in [1 .. Len(f) + 1 -> Bytes]
  BY <1>2, LenProperties
<1>4. Len(f) + 1 \in 0 .. MaxLen
  BY <1>1, MaxLenAssumption
<1> QED
  BY <1>3, <1>4 DEF Contents

(* Appending leaves each part of a sequence as it was. *)
LEMMA AppendKeepsParts ==
  ASSUME NEW S, NEW f \in Seq(S), NEW b \in S,
         NEW m \in Nat \ {0}, NEW n \in Nat, n <= Len(f)
  PROVE  SubSeq(Append(f, b), m, n) = SubSeq(f, m, n)
<1> DEFINE g == Append(f, b)
<1>1. /\ Len(f) \in Nat
      /\ \A i \in 1 .. Len(f) : f[i] \in S /\ g[i] = f[i]
  BY LenProperties, AppendProperties
<1>2. \A i \in m .. n : i \in 1 .. Len(f) /\ f[i] \in S /\ g[i] \in S /\ g[i] = f[i]
  BY <1>1
<1> HIDE DEF g
<1>3. /\ SubSeq(f, m, n) \in Seq(S)
      /\ Len(SubSeq(f, m, n)) = IF m <= n THEN n - m + 1 ELSE 0
      /\ \A i \in 1 .. n - m + 1 : SubSeq(f, m, n)[i] = f[m + i - 1]
  BY <1>2, SubSeqProperties
<1>4. /\ SubSeq(g, m, n) \in Seq(S)
      /\ Len(SubSeq(g, m, n)) = IF m <= n THEN n - m + 1 ELSE 0
      /\ \A i \in 1 .. n - m + 1 : SubSeq(g, m, n)[i] = g[m + i - 1]
  BY <1>2, SubSeqProperties
<1>5. \A i \in 1 .. Len(SubSeq(g, m, n)) : SubSeq(g, m, n)[i] = SubSeq(f, m, n)[i]
  <2> SUFFICES ASSUME NEW i \in 1 .. Len(SubSeq(g, m, n))
               PROVE SubSeq(g, m, n)[i] = SubSeq(f, m, n)[i]
    OBVIOUS
  <2>1. i \in 1 .. n - m + 1 /\ m + i - 1 \in m .. n
    BY <1>4
  <2> QED
    BY <2>1, <1>2, <1>3, <1>4
<1>6. SubSeq(g, m, n) = SubSeq(f, m, n)
  BY <1>3, <1>4, <1>5, SeqEqual
<1> QED
  BY <1>6 DEF g

LEMMA PrefixGrows ==
  ASSUME NEW S, NEW s \in Seq(S), NEW f \in Seq(S), NEW b \in S, IsPrefix(s, f)
  PROVE  IsPrefix(s, Append(f, b))
<1>1. Len(s) \in Nat /\ Len(f) \in Nat /\ Len(Append(f, b)) = Len(f) + 1
  BY LenProperties, AppendProperties
<1>2. SubSeq(Append(f, b), 1, Len(s)) = SubSeq(f, 1, Len(s))
  BY <1>1, AppendKeepsParts DEF IsPrefix
<1> QED
  BY <1>1, <1>2 DEF IsPrefix

(* The part of a file that a read returns. *)
LEMMA ReadIsPart ==
  ASSUME NEW S, NEW f \in Seq(S), NEW from \in Nat, NEW limit \in Nat, from <= Len(f),
         NEW d, d = SubSeq(f, from + 1, Least(from + limit, Len(f)))
  PROVE  /\ Len(d) = Least(from + limit, Len(f)) - from
         /\ d = SubSeq(f, (from + Len(d)) - Len(d) + 1, from + Len(d))
<1> DEFINE to == Least(from + limit, Len(f))
<1>1. Len(f) \in Nat /\ \A i \in 1 .. Len(f) : f[i] \in S
  BY LenProperties
<1>2. to \in Nat /\ from <= to /\ to <= Len(f)
  BY <1>1 DEF Least
<1> HIDE DEF to
<1>3. \A i \in from + 1 .. to : f[i] \in S
  BY <1>1, <1>2
<1>4. /\ SubSeq(f, from + 1, to) \in Seq(S)
      /\ Len(SubSeq(f, from + 1, to)) = IF from + 1 <= to THEN to - (from + 1) + 1 ELSE 0
  BY <1>2, <1>3, SubSeqProperties
<1>5. Len(SubSeq(f, from + 1, to)) = to - from
  BY <1>2, <1>4
<1>6. (from + (to - from)) - (to - from) + 1 = from + 1 /\ from + (to - from) = to
  BY <1>2
<1> QED
  BY <1>4, <1>5, <1>6 DEF to

-----------------------------------------------------------------------------
LEMMA InitEstablishes == Init => FetchInv
<1> SUFFICES ASSUME Init PROVE FetchInv
  OBVIOUS
<1>0. <<>> \in Seq(Bytes) /\ <<>> \in Seq(Bytes \cup {Replaced})
  BY EmptySeq
<1>1. TypeOK
  <2>1. Idle \in CallType
    BY <1>0 DEF Idle, CallType
  <2> QED
    BY <1>0, <2>1 DEF Init, TypeOK
<1>2. OldIsRead /\ GoneIsRewritten /\ ClientsStartEmpty
  BY <1>0 DEF Init, OldIsRead, GoneIsRewritten, ClientsStartEmpty, Idle, Callers
<1>3. OffsetIsLength /\ DestinationIsCopied
  BY DEF Init, OffsetIsLength, DestinationIsCopied, Idle, InFlight, Asking, Callers
<1>4. \A c \in Callers : Told(c)
  BY DEF Init, Told, Idle, InFlight, Asking, Sized, Answered
<1>5. \A c \in Clients : Copied(c)
  BY DEF Init, Copied, Idle, InFlight, Asking, Callers
<1> QED
  BY <1>1, <1>2, <1>3, <1>4, <1>5 DEF FetchInv

(* The job's own steps. *)
LEMMA GrowPreserves ==
  ASSUME FetchInv, NEW b \in Bytes, Grow(b)
  PROVE  FetchInv'
<1> USE DEF FetchInv
<1>1. file \in Contents /\ file \in Seq(Bytes) /\ Len(file) \in Nat
  BY ContentsAreSeqs DEF TypeOK
<1>2. file' = Append(file, b) /\ Len(file') = Len(file) + 1
  BY <1>1, AppendProperties DEF Grow
<1>3. UNCHANGED <<gone, call, temp, dest, since, began>>
  BY DEF Grow
<1>5. TypeOK'
  <2>1. file' \in Contents
    BY <1>1, <1>2, GrownIsContent DEF Grow
  <2> QED
    BY <1>3, <2>1 DEF TypeOK
<1>6. /\ OldIsRead' /\ GoneIsRewritten' /\ ClientsStartEmpty' /\ OffsetIsLength'
      /\ DestinationIsCopied'
  BY <1>3 DEF OldIsRead, GoneIsRewritten, ClientsStartEmpty, OffsetIsLength,
              DestinationIsCopied
<1>7. ASSUME NEW c \in Callers PROVE Told(c)'
  <2> SUFFICES ASSUME since[c] # "rewritten"
               PROVE  Told(c)'
    BY <1>3 DEF Told
  <2>1. began[c] \in Nat /\ call[c].size \in Nat /\ call[c].next \in Nat /\ Start(c) \in Nat
    BY DEF TypeOK, CallType, Start, Least
  <2>2. /\ Sized(c)' <=> Sized(c)
        /\ Answered(c)' <=> Answered(c)
        /\ Start(c)' = Start(c)
    BY <1>3 DEF Sized, Answered, Start
  <2>3. Answered(c) =>
          /\ call[c].next <= Len(file')
          /\ SubSeq(file', Start(c) + 1, call[c].next) = SubSeq(file, Start(c) + 1, call[c].next)
    <3> SUFFICES ASSUME Answered(c)
                 PROVE  /\ call[c].next <= Len(file')
                        /\ SubSeq(file', Start(c) + 1, call[c].next)
                             = SubSeq(file, Start(c) + 1, call[c].next)
      OBVIOUS
    <3>1. call[c].next <= Len(file)
      BY DEF Told
    <3>2. \A m \in Nat \ {0}, n \in Nat :
            n <= Len(file) => SubSeq(Append(file, b), m, n) = SubSeq(file, m, n)
      BY <1>1, AppendKeepsParts
    <3>3. Start(c) + 1 \in Nat \ {0}
      BY <2>1
    <3>4. SubSeq(Append(file, b), Start(c) + 1, call[c].next)
            = SubSeq(file, Start(c) + 1, call[c].next)
      <4> HIDE DEF FetchInv
      <4> QED
        BY <2>1, <3>1, <3>2, <3>3
    <3>5. call[c].next <= Len(file')
      BY <1>1, <1>2, <2>1, <3>1
    <3> QED
      BY <1>2, <3>4, <3>5
  <2>4. /\ call[c].pc \in InFlight \cup {"done"} => began[c] <= Len(file')
        /\ Sized(c) => /\ began[c] <= call[c].size /\ call[c].size <= Len(file')
                       /\ call[c].tail => call[c].offset <= call[c].size
    BY <1>1, <1>2, <2>1 DEF Told
  <2> QED
    BY <1>3, <2>2, <2>3, <2>4 DEF Told, AsSent
<1>8. ASSUME NEW c \in Clients PROVE Copied(c)'
  <2>1. temp[c] \in Seq(Bytes) /\ c \in Callers
    BY DEF TypeOK, Callers
  <2>2. IsPrefix(temp[c], file) => IsPrefix(temp[c], file')
    BY <1>1, <1>2, <2>1, PrefixGrows
  <2>3. IsPrefix(temp[c], file)' <=> IsPrefix(temp[c], file')
    BY <1>3
  <2> QED
    BY <1>3, <2>1, <2>2, <2>3 DEF Copied
<1> QED
  BY <1>5, <1>6, <1>7, <1>8

LEMMA RewritePreserves ==
  ASSUME FetchInv, NEW f \in Contents, Overwrite(f) \/ Replace(f) \/ Remove
  PROVE  FetchInv'
<1> USE DEF FetchInv
<1>1. /\ file' \in Contents /\ gone' \in BOOLEAN
      /\ since' = [c \in Callers |-> "rewritten"] /\ UNCHANGED <<temp, dest, began>>
  BY DEF Overwrite, Replace, Remove, Rewritten, TypeOK
<1>2. \A c \in Callers :
        /\ call'[c].pc = call[c].pc /\ call'[c].tail = call[c].tail
        /\ call'[c].offset = call[c].offset /\ call'[c].data = call[c].data
        /\ call'[c].old => call[c].pc = "read"
  <2>1. CASE Overwrite(f)
    BY <2>1 DEF Overwrite, OldIsRead
  <2>2. CASE Replace(f) \/ Remove
    <3>1. OpenedKeep
      BY <2>2 DEF Replace, Remove
    <3>2. SUFFICES ASSUME NEW c \in Callers
                   PROVE  /\ call'[c].pc = call[c].pc /\ call'[c].tail = call[c].tail
                          /\ call'[c].offset = call[c].offset /\ call'[c].data = call[c].data
                          /\ call'[c].old => call[c].pc = "read"
      OBVIOUS
    <3>3. call[c] \in CallType
      BY DEF TypeOK
    <3>4. CASE call[c].pc = "read" /\ ~call[c].old
      <4>1. call'[c] = [call[c] EXCEPT !.old = TRUE, !.bytes = file]
        BY <3>1, <3>4 DEF OpenedKeep
      <4> HIDE DEF FetchInv
      <4> QED
        BY <3>3, <3>4, <4>1 DEF CallType
    <3>5. CASE ~(call[c].pc = "read" /\ ~call[c].old)
      <4>1. call'[c] = call[c]
        BY <3>1, <3>5 DEF OpenedKeep
      <4> QED
        BY <4>1 DEF OldIsRead
    <3> QED
      BY <3>4, <3>5
  <2> QED
    BY <2>1, <2>2
<1>3. TypeOK'
  <2>1. file \in Seq(Bytes)
    BY ContentsAreSeqs DEF TypeOK
  <2>2. call' \in [Callers -> CallType]
    <3>1. CASE Overwrite(f)
      BY <3>1 DEF Overwrite, TypeOK
    <3>2. CASE Replace(f) \/ Remove
      <4>1. \A c \in Callers : [call[c] EXCEPT !.old = TRUE, !.bytes = file] \in CallType
        BY <2>1 DEF TypeOK, CallType
      <4> QED
        BY <3>2, <4>1 DEF Replace, Remove, OpenedKeep, TypeOK
    <3> QED
      BY <3>1, <3>2
  <2>3. since' \in [Callers -> {"kept", "rewritten"}]
    BY <1>1
  <2> QED
    BY <1>1, <2>2, <2>3 DEF TypeOK
<1>4. OldIsRead' /\ GoneIsRewritten'
  BY <1>1, <1>2 DEF OldIsRead, GoneIsRewritten
<1>5. ClientsStartEmpty' /\ OffsetIsLength'
  BY <1>1, <1>2 DEF ClientsStartEmpty, OffsetIsLength, Callers
<1>6. DestinationIsCopied'
  BY <1>1, <1>2 DEF DestinationIsCopied, Callers, TypeOK
<1>7. \A c \in Callers : Told(c)'
  BY <1>1 DEF Told
<1>8. \A c \in Clients : Copied(c)'
  BY <1>1 DEF Copied, Callers
<1> QED
  BY <1>3, <1>4, <1>5, <1>6, <1>7, <1>8

(* A caller's step leaves the others, and the file, alone. *)
LEMMA OthersKeep ==
  ASSUME FetchInv, NEW c \in Callers, TypeOK', file' = file, gone' = gone,
         \A d \in Callers \ {c} :
           call'[d] = call[d] /\ since'[d] = since[d] /\ began'[d] = began[d],
         \A d \in Clients \ {c} : temp'[d] = temp[d],
         call'[c].old => call'[c].pc = "read" /\ since'[c] = "rewritten",
         gone /\ call'[c].pc \in {"stat", "open", "read"} => since'[c] = "rewritten",
         Told(c)',
         c \in Clients =>
           /\ Copied(c)'
           /\ ~call'[c].tail /\ (call'[c].pc = "idle" => temp'[c] = <<>>)
           /\ call'[c].data \in Seq(Bytes)
           /\ call'[c].pc \in InFlight \cup {"done"} => Len(temp'[c]) = call'[c].offset,
         DestinationIsCopied'
  PROVE  FetchInv'
<1> USE DEF FetchInv
<1>1. OldIsRead' /\ GoneIsRewritten'
  BY DEF OldIsRead, GoneIsRewritten
<1>2. ClientsStartEmpty'
  BY DEF ClientsStartEmpty, Callers
<1>3. OffsetIsLength'
  BY DEF OffsetIsLength, Callers
<1>4. ASSUME NEW d \in Callers PROVE Told(d)'
  BY DEF Told, Sized, Answered, Start
<1>5. ASSUME NEW d \in Clients PROVE Copied(d)'
  BY DEF Copied, Callers
<1> QED
  BY <1>1, <1>2, <1>3, <1>4, <1>5

(* A step that ends no client and starts none behind a destination leaves that
   as it was. *)
LEMMA DestinationKept ==
  ASSUME FetchInv, NEW c \in Callers, dest' = dest,
         \A d \in Callers \ {c} : call'[d] = call[d],
         \A d \in Clients \ {c} : temp'[d] = temp[d],
         c \in Clients =>
           /\ call[c].pc # "done" /\ call'[c].pc # "done"
           /\ call'[c].pc \in InFlight => call[c].pc \in InFlight \/ dest.by = NoClient
  PROVE  DestinationIsCopied'
<1>1. DestinationIsCopied /\ TypeOK
  BY DEF FetchInv
<1>2. \A d \in Clients : d \in Callers
  BY DEF Callers
<1>3. dest'.by # NoClient => call'[dest'.by].pc = "done" /\ dest'.bytes = temp'[dest'.by]
  BY <1>1, <1>2 DEF DestinationIsCopied, TypeOK
<1>4. dest'.by # NoClient =>
        \A d \in Clients : call'[d].pc \in InFlight \cup {"done"} => d \in dest'.rivals
  BY <1>1, <1>2 DEF DestinationIsCopied
<1>5. \A d \in Clients : call'[d].pc = "done" => dest'.by # NoClient
  BY <1>1, <1>2 DEF DestinationIsCopied
<1> QED
  BY <1>3, <1>4, <1>5 DEF DestinationIsCopied

LEMMA BeginPreserves ==
  ASSUME FetchInv, NEW c \in Callers, NEW offset \in Nat, NEW tail \in BOOLEAN,
         Begin(c, offset, tail), UNCHANGED <<file, gone, temp, dest>>,
         c \in Clients => ~tail /\ offset = 0 /\ call[c].pc = "idle" /\ dest.by = NoClient
  PROVE  FetchInv'
<1> USE DEF FetchInv
<1>0. Len(file) \in Nat
  BY ContentsAreSeqs DEF TypeOK
<1>1. /\ call'[c].pc = "resolve" /\ call'[c].offset = offset /\ call'[c].tail = tail
      /\ ~call'[c].old /\ since'[c] = "kept" /\ call'[c].data = <<>>
      /\ began'[c] = Len(file)
  BY DEF Begin, TypeOK, Idle
<1>2. \A d \in Callers \ {c} :
        call'[d] = call[d] /\ since'[d] = since[d] /\ began'[d] = began[d]
  BY DEF Begin, TypeOK
<1>3. TypeOK'
  <2>1. [Idle EXCEPT !.pc = "resolve", !.offset = offset, !.tail = tail] \in CallType
    BY EmptySeq DEF Idle, CallType, InFlight, Asking
  <2> QED
    BY <1>0, <2>1 DEF Begin, TypeOK
<1>4. Told(c)'
  BY <1>0, <1>1 DEF Told, InFlight, Asking, Sized, Answered
<1>5. c \in Clients => temp'[c] = <<>>
  BY DEF ClientsStartEmpty
<1>6. c \in Clients => Copied(c)'
  <2>1. IsPrefix(<<>>, file')
    <3>1. SubSeq(file', 1, 0) = <<>>
      BY SubSeqEmpty
    <3> QED
      BY <3>1, <1>0, EmptySeq DEF IsPrefix
  <2> QED
    BY <1>1, <1>5, <2>1 DEF Copied
<1>7. DestinationIsCopied'
  BY <1>1, <1>2, DestinationKept
<1>8. c \in Clients => Len(temp'[c]) = call'[c].offset /\ call'[c].data \in Seq(Bytes)
  BY <1>1, <1>5, EmptySeq
<1> QED
  BY <1>1, <1>2, <1>3, <1>4, <1>5, <1>6, <1>7, <1>8, OthersKeep

LEMMA FetchBeginPreserves ==
  ASSUME FetchInv, NEW c \in Clients, FetchBegin(c)
  PROVE  FetchInv'
<1> USE DEF FetchInv
<1>0. c \in Callers /\ c \notin Readers
  BY NoClientAssumption DEF Callers
<1>1. CASE dest.by = NoClient
  <2>1. Begin(c, 0, FALSE) /\ UNCHANGED <<file, gone, temp, dest>> /\ call[c].pc = "idle"
    BY <1>1 DEF FetchBegin
  <2> QED
    BY <1>0, <1>1, <2>1, BeginPreserves
<1>2. CASE dest.by # NoClient
  <2>1. call[c].pc = "idle" /\ call' = [call EXCEPT ![c].pc = "failed"]
        /\ UNCHANGED <<since, began, file, gone, temp, dest>>
    BY <1>2 DEF FetchBegin
  <2>2. TypeOK'
    BY <2>1 DEF TypeOK, CallType
  <2>3. call'[c].pc = "failed" /\ call'[c].tail = call[c].tail /\ call'[c].old = call[c].old
        /\ call'[c].data = call[c].data
    BY <1>0, <2>1 DEF TypeOK, CallType
  <2>4. Told(c)' /\ Copied(c)'
    BY <2>3 DEF Told, Copied, InFlight, Asking, Sized, Answered
  <2>5. ~call'[c].tail /\ ~call'[c].old /\ call'[c].data \in Seq(Bytes)
    BY <1>0, <2>1, <2>3 DEF ClientsStartEmpty, OldIsRead, TypeOK, CallType
  <2>6. \A d \in Callers \ {c} : call'[d] = call[d]
    BY <2>1 DEF TypeOK
  <2>7. DestinationIsCopied'
    BY <1>0, <2>1, <2>3, <2>6, DestinationKept DEF InFlight, Asking
  <2> QED
    BY <1>0, <2>1, <2>2, <2>3, <2>4, <2>5, <2>6, <2>7, OthersKeep DEF InFlight, Asking
<1> QED
  BY <1>1, <1>2

LEMMA LogsBeginPreserves ==
  ASSUME FetchInv, NEW r \in Readers, LogsBegin(r)
  PROVE  FetchInv'
<1>1. r \in Callers /\ r \notin Clients
  BY NoClientAssumption DEF Callers
<1>2. UNCHANGED <<file, gone, temp, dest>>
  BY DEF LogsBegin
<1>3. CASE Begin(r, 0, TRUE)
  BY <1>1, <1>2, <1>3, BeginPreserves
<1>4. ASSUME NEW offset \in 0 .. MaxLen, Begin(r, offset, FALSE)
      PROVE  FetchInv'
  <2>1. offset \in Nat
    BY MaxLenAssumption
  <2> QED
    BY <1>1, <1>2, <1>4, <2>1, BeginPreserves
<1> QED
  BY <1>3, <1>4 DEF LogsBegin

LEMMA ResolvePreserves ==
  ASSUME FetchInv, NEW c \in Callers, HelperResolve(c)
  PROVE  FetchInv'
<1> USE DEF FetchInv
<1>1. /\ call[c].pc = "resolve" /\ call'[c].pc = "stat" /\ ~gone
      /\ call'[c].offset = call[c].offset /\ call'[c].data = call[c].data
      /\ call'[c].old = call[c].old /\ call'[c].tail = call[c].tail
      /\ UNCHANGED <<file, gone, temp, dest, since, began>>
  BY DEF HelperResolve, TypeOK, CallType
<1>2. \A d \in Callers \ {c} : call'[d] = call[d]
  BY DEF HelperResolve, TypeOK
<1>3. TypeOK'
  <2>1. \A d \in Callers : call'[d] \in CallType
    BY DEF HelperResolve, TypeOK, CallType, InFlight, Asking
  <2> QED
    BY <1>1, <2>1 DEF HelperResolve, TypeOK
<1>4. Told(c)'
  BY <1>1 DEF Told, InFlight, Asking, Sized, Answered
<1>5. c \in Clients => Copied(c)'
  BY <1>1 DEF Copied, InFlight, Asking
<1>6. c \in Clients => /\ ~call'[c].tail /\ Len(temp'[c]) = call'[c].offset
                       /\ call'[c].data \in Seq(Bytes)
  BY <1>1 DEF ClientsStartEmpty, OffsetIsLength, InFlight, Asking
<1>7. DestinationIsCopied'
  BY <1>1, <1>2, DestinationKept DEF InFlight, Asking
<1> QED
  BY <1>1, <1>2, <1>3, <1>4, <1>5, <1>6, <1>7, OthersKeep DEF OldIsRead

LEMMA StatPreserves ==
  ASSUME FetchInv, NEW c \in Callers, HelperStat(c)
  PROVE  FetchInv'
<1> USE DEF FetchInv
<1>0. /\ Len(file) \in Nat /\ TailStart(c) \in Nat /\ TailStart(c) <= Len(file)
  <2>1. Len(file) \in Nat /\ Limit(c) \in Nat
    BY ContentsAreSeqs, LimitAssumption DEF TypeOK, Limit
  <2> QED
    BY <2>1 DEF TailStart, Most
<1>1. /\ call[c].pc = "stat" /\ call'[c].pc = "open" /\ call'[c].size = Len(file) /\ ~gone
      /\ call'[c].offset = IF call[c].tail THEN TailStart(c) ELSE call[c].offset
      /\ call'[c].old = call[c].old /\ call'[c].tail = call[c].tail
      /\ call'[c].data = call[c].data
      /\ UNCHANGED <<file, gone, temp, dest, since, began>>
  BY DEF HelperStat, TypeOK, CallType
<1>2. \A d \in Callers \ {c} : call'[d] = call[d]
  BY DEF HelperStat, TypeOK
<1>3. TypeOK'
  <2>1. call'[c] \in CallType
    <3> DEFINE from == IF call[c].tail THEN TailStart(c) ELSE call[c].offset
    <3>1. from \in Nat
      BY <1>0 DEF TypeOK, CallType
    <3>2. call'[c] = [call[c] EXCEPT !.pc = "open", !.size = Len(file), !.offset = from]
      BY DEF HelperStat, TypeOK
    <3>3. call[c] \in CallType
      BY DEF TypeOK
    <3> HIDE DEF from, FetchInv
    <3> QED
      BY <1>0, <3>1, <3>2, <3>3 DEF CallType, InFlight, Asking
  <2>2. call' \in [Callers -> CallType]
    BY <1>2, <2>1 DEF HelperStat, TypeOK
  <2> QED
    BY <1>1, <2>2 DEF TypeOK
<1>4. Told(c)'
  BY <1>0, <1>1 DEF Told, InFlight, Asking, Sized, Answered, TypeOK
<1>5. c \in Clients => Copied(c)'
  BY <1>1 DEF Copied, InFlight, Asking
<1>6. c \in Clients => /\ ~call'[c].tail /\ Len(temp'[c]) = call'[c].offset
                       /\ call'[c].data \in Seq(Bytes)
  BY <1>1 DEF ClientsStartEmpty, OffsetIsLength, InFlight, Asking
<1>7. DestinationIsCopied'
  BY <1>1, <1>2, DestinationKept DEF InFlight, Asking
<1> QED
  BY <1>1, <1>2, <1>3, <1>4, <1>5, <1>6, <1>7, OthersKeep DEF OldIsRead

LEMMA OpenPreserves ==
  ASSUME FetchInv, NEW c \in Callers, HelperOpen(c)
  PROVE  FetchInv'
<1> USE DEF FetchInv
<1>1. /\ call[c].pc = "open" /\ call'[c].pc = "read" /\ call'[c].size = call[c].size
      /\ call'[c].offset = call[c].offset /\ ~gone /\ call'[c].data = call[c].data
      /\ call'[c].old = call[c].old /\ call'[c].tail = call[c].tail
      /\ UNCHANGED <<file, gone, temp, dest, since, began>>
  BY DEF HelperOpen, TypeOK, CallType
<1>2. \A d \in Callers \ {c} : call'[d] = call[d]
  BY DEF HelperOpen, TypeOK
<1>3. TypeOK'
  <2>1. \A d \in Callers : call'[d] \in CallType
    BY DEF HelperOpen, TypeOK, CallType, InFlight, Asking
  <2> QED
    BY <1>1, <2>1 DEF HelperOpen, TypeOK
<1>4. Told(c)'
  BY <1>1 DEF Told, InFlight, Asking, Sized, Answered
<1>5. c \in Clients => Copied(c)'
  BY <1>1 DEF Copied, InFlight, Asking
<1>6. c \in Clients => /\ ~call'[c].tail /\ Len(temp'[c]) = call'[c].offset
                       /\ call'[c].data \in Seq(Bytes)
  BY <1>1 DEF ClientsStartEmpty, OffsetIsLength, InFlight, Asking
<1>7. DestinationIsCopied'
  BY <1>1, <1>2, DestinationKept DEF InFlight, Asking
<1> QED
  BY <1>1, <1>2, <1>3, <1>4, <1>5, <1>6, <1>7, OthersKeep DEF OldIsRead

LEMMA MissingPreserves ==
  ASSUME FetchInv, NEW r \in Readers, HelperMissing(r)
  PROVE  FetchInv'
<1> USE DEF FetchInv
<1>0. r \in Callers /\ r \notin Clients
  BY NoClientAssumption DEF Callers
<1>1. /\ call'[r].pc = "receive" /\ call'[r].old = call[r].old
      /\ call[r].pc \in {"stat", "open"} /\ gone
      /\ \A d \in Callers \ {r} : call'[d] = call[d]
      /\ UNCHANGED <<file, gone, temp, dest, since, began>>
  BY <1>0 DEF HelperMissing, TypeOK, CallType
<1>2. TypeOK'
  <2>1. [call[r] EXCEPT !.pc = "receive", !.size = 0, !.data = <<>>, !.next = 0,
                        !.eof = TRUE] \in CallType
    BY <1>0, EmptySeq DEF TypeOK, CallType, InFlight, Asking
  <2>2. call' \in [Callers -> CallType]
    BY <2>1 DEF HelperMissing, TypeOK
  <2> QED
    BY <1>1, <2>2 DEF TypeOK
<1>3. since[r] = "rewritten" /\ Told(r)'
  BY <1>0, <1>1 DEF GoneIsRewritten, Told
<1>4. DestinationIsCopied'
  BY <1>0, <1>1, DestinationKept
<1>5. ~call'[r].old
  BY <1>0, <1>1 DEF OldIsRead
<1> QED
  BY <1>0, <1>1, <1>2, <1>3, <1>4, <1>5, OthersKeep

(* What the read returns, of the file that is open. *)
LEMMA ChunkFacts ==
  ASSUME TypeOK, NEW c \in Callers
  PROVE  Chunk(c) \in Seq(Bytes) /\ Start(c) \in Nat /\ NextOffset(c) \in Nat
<1> DEFINE f == IF call[c].old THEN call[c].bytes ELSE file
<1>1. f \in Seq(Bytes)
  BY ContentsAreSeqs DEF TypeOK, CallType
<1>2. Start(c) \in Nat
  BY DEF Start, Least, TypeOK, CallType
<1>3. Len(f) \in Nat /\ \A i \in 1 .. Len(f) : f[i] \in Bytes
  BY <1>1, LenProperties
<1> DEFINE to == Least(Start(c) + Limit(c), Len(f))
<1>4. to \in Nat /\ to <= Len(f)
  BY <1>2, <1>3, LimitAssumption DEF Least, Limit
<1>5. Chunk(c) = SubSeq(f, Start(c) + 1, to)
  BY DEF Chunk
<1> HIDE DEF f, to
<1>6. \A i \in Start(c) + 1 .. to : f[i] \in Bytes
  BY <1>2, <1>3, <1>4
<1>7. Chunk(c) \in Seq(Bytes)
  BY <1>2, <1>4, <1>5, <1>6, SubSeqProperties
<1>8. Len(Chunk(c)) \in Nat
  BY <1>7, LenProperties
<1> QED
  BY <1>2, <1>7, <1>8 DEF NextOffset

(* A text has a place for each byte of its chunk. *)
LEMMA DecodedFacts ==
  ASSUME NEW s \in Seq(Bytes)
  PROVE  /\ Decoded(s) \in Seq(Bytes \cup {Replaced})
         /\ Len(Decoded(s)) = Len(s)
         /\ \A i \in 1 .. Len(s) : Decoded(s)[i] = IF Complete(s, i) THEN s[i] ELSE Replaced
<1>1. Len(s) \in Nat /\ \A i \in 1 .. Len(s) : s[i] \in Bytes
  BY LenProperties
<1>2. Decoded(s) \in [1 .. Len(s) -> Bytes \cup {Replaced}]
  BY <1>1 DEF Decoded
<1>3. Decoded(s) \in Seq(Bytes \cup {Replaced})
  BY <1>1, <1>2, SeqDef
<1>4. Len(Decoded(s)) = Len(s)
  BY <1>1, <1>2, <1>3, LenProperties
<1> QED
  BY <1>3, <1>4 DEF Decoded

LEMMA SentFacts ==
  ASSUME TypeOK, NEW c \in Callers
  PROVE  /\ Sent(c) \in Seq(Bytes \cup {Replaced}) /\ Len(Sent(c)) = Len(Chunk(c))
         /\ c \in Clients => Sent(c) \in Seq(Bytes)
<1>1. Chunk(c) \in Seq(Bytes)
  BY ChunkFacts
<1>2. CASE c \in Readers
  BY <1>1, <1>2, DecodedFacts, NoClientAssumption DEF Sent
<1>3. CASE c \notin Readers
  <2>1. \A i \in 1 .. Len(Chunk(c)) : Chunk(c)[i] \in Bytes \cup {Replaced}
    BY <1>1, LenProperties
  <2>2. Len(Chunk(c)) \in Nat /\ Chunk(c) = [i \in 1 .. Len(Chunk(c)) |-> Chunk(c)[i]]
    BY <1>1, LenProperties
  <2>3. Chunk(c) \in [1 .. Len(Chunk(c)) -> Bytes \cup {Replaced}]
    BY <2>1, <2>2
  <2>4. Chunk(c) \in Seq(Bytes \cup {Replaced})
    BY <2>2, <2>3, SeqDef
  <2> QED
    BY <1>1, <1>3, <2>4 DEF Sent
<1> QED
  BY <1>2, <1>3

LEMMA ReadPreserves ==
  ASSUME FetchInv, NEW c \in Callers, HelperRead(c)
  PROVE  FetchInv'
<1> USE DEF FetchInv
<1>0. /\ Chunk(c) \in Seq(Bytes) /\ Start(c) \in Nat /\ NextOffset(c) \in Nat
      /\ AtEnd(c) \in BOOLEAN /\ Len(Sent(c)) = Len(Chunk(c))
      /\ Sent(c) \in Seq(Bytes \cup {Replaced}) /\ (c \in Clients => Sent(c) \in Seq(Bytes))
  BY ChunkFacts, SentFacts DEF AtEnd
<1>1. /\ call[c].pc = "read" /\ call'[c].pc = "receive" /\ call'[c].size = call[c].size
      /\ call'[c].offset = call[c].offset /\ call'[c].data = Sent(c)
      /\ call'[c].next = NextOffset(c) /\ call'[c].eof = AtEnd(c)
      /\ ~call'[c].old /\ call'[c].tail = call[c].tail
      /\ UNCHANGED <<file, gone, temp, dest, since, began>>
  BY DEF HelperRead, TypeOK, CallType
<1>2. \A d \in Callers \ {c} : call'[d] = call[d]
  BY DEF HelperRead, TypeOK
<1>3. TypeOK'
  <2>1. [call[c] EXCEPT !.pc = "receive", !.data = Sent(c), !.next = NextOffset(c),
                        !.eof = AtEnd(c), !.old = FALSE, !.bytes = <<>>] \in CallType
    BY <1>0, EmptySeq DEF TypeOK, CallType, InFlight, Asking
  <2>2. call' \in [Callers -> CallType]
    BY <2>1 DEF HelperRead, TypeOK
  <2> QED
    BY <1>1, <2>2 DEF TypeOK
<1>4. Told(c)'
  <2> SUFFICES ASSUME since[c] # "rewritten" PROVE Told(c)'
    BY <1>1 DEF Told
  <2>1. file \in Seq(Bytes) /\ Len(file) \in Nat /\ Limit(c) \in Nat
    BY ContentsAreSeqs, LimitAssumption DEF TypeOK, Limit
  <2>2. /\ began[c] <= Len(file) /\ began[c] <= call[c].size
        /\ call[c].size <= Len(file) /\ (call[c].tail => call[c].offset <= call[c].size)
        /\ call[c].size \in Nat /\ ~call[c].old
    BY <1>1 DEF Told, InFlight, Asking, Sized, TypeOK, CallType, OldIsRead
  <2>3. Start(c) <= Len(file)
    BY <1>0, <2>1, <2>2 DEF Start, Least, TypeOK, CallType
  <2>4. Chunk(c) = SubSeq(file, Start(c) + 1, Least(Start(c) + Limit(c), Len(file)))
    BY <2>2 DEF Chunk
  <2>5. Len(Chunk(c)) = Least(Start(c) + Limit(c), Len(file)) - Start(c)
    <3> HIDE DEF FetchInv
    <3>1. \A from \in Nat, l \in Nat :
            from <= Len(file) =>
              Len(SubSeq(file, from + 1, Least(from + l, Len(file))))
                = Least(from + l, Len(file)) - from
      BY <2>1, ReadIsPart
    <3> QED
      BY <1>0, <2>1, <2>3, <2>4, <3>1
  <2>6. Least(Start(c) + Limit(c), Len(file)) \in Nat
        /\ Least(Start(c) + Limit(c), Len(file)) <= Len(file)
    BY <1>0, <2>1 DEF Least
  <2>7. /\ NextOffset(c) = Least(Start(c) + Limit(c), Len(file))
        /\ NextOffset(c) = Start(c) + Len(Chunk(c)) /\ NextOffset(c) <= Len(file)
    BY <1>0, <2>5, <2>6 DEF NextOffset
  <2>8. Sent(c) = AsSent(c, SubSeq(file, Start(c) + 1, NextOffset(c)))
    BY <2>4, <2>7 DEF Sent, AsSent
  <2>9. AtEnd(c) => NextOffset(c) >= call[c].size
    BY DEF AtEnd
  <2>10. Start(c)' = Start(c)
    BY <1>1 DEF Start
  <2>11. /\ call'[c].next = Start(c)' + Len(call'[c].data) /\ call'[c].next <= Len(file')
         /\ call'[c].data = AsSent(c, SubSeq(file', Start(c)' + 1, call'[c].next))
    BY <1>0, <1>1, <2>7, <2>8, <2>10
  <2>12. /\ began'[c] <= Len(file') /\ began'[c] <= call'[c].size
         /\ call'[c].size <= Len(file')
         /\ call'[c].tail => call'[c].offset <= call'[c].size
         /\ call'[c].eof => call'[c].next >= call'[c].size
    BY <1>1, <2>2, <2>9
  <2> HIDE DEF FetchInv
  <2> QED
    BY <2>11, <2>12 DEF Told, AsSent
<1>5. c \in Clients => Copied(c)'
  BY <1>1 DEF Copied, InFlight, Asking
<1>6. c \in Clients => /\ ~call'[c].tail /\ Len(temp'[c]) = call'[c].offset
                       /\ call'[c].data \in Seq(Bytes)
  BY <1>0, <1>1 DEF ClientsStartEmpty, OffsetIsLength, InFlight, Asking
<1>7. DestinationIsCopied'
  BY <1>1, <1>2, DestinationKept DEF InFlight, Asking
<1> QED
  BY <1>1, <1>2, <1>3, <1>4, <1>5, <1>6, <1>7, OthersKeep

(* What a request is reset to, and what a collected chunk makes of a copy. *)
LEMMA IdleIsCall ==
  /\ \A pc \in {"resolve", "collected"}, o \in Nat : [Idle EXCEPT !.pc = pc, !.offset = o] \in CallType
  /\ [Idle EXCEPT !.pc = "failed"] \in CallType
  BY EmptySeq DEF Idle, CallType, InFlight, Asking

LEMMA ChunkIsCollected ==
  ASSUME NEW s \in Seq(Bytes), NEW t \in Seq(Bytes)
  PROVE  s \o t \in Seq(Bytes) /\ Len(s \o t) = Len(s) + Len(t)
  BY ConcatProperties

LEMMA ReceivePreserves ==
  ASSUME FetchInv, NEW c \in Clients, Receive(c)
  PROVE  FetchInv'
<1> USE DEF FetchInv
<1>0. /\ c \in Callers /\ c \notin Readers /\ Len(file) \in Nat /\ file \in Seq(Bytes)
      /\ temp[c] \in Seq(Bytes) /\ call[c].data \in Seq(Bytes)
      /\ call[c].next \in Nat /\ call[c].offset \in Nat
      /\ Len(temp[c]) \in Nat /\ Len(call[c].data) \in Nat /\ began[c] \in Nat
  BY ContentsAreSeqs, LenProperties, NoClientAssumption
     DEF Callers, TypeOK, CallType, ClientsStartEmpty
<1>1. /\ call[c].pc = "receive" /\ call[c].next - call[c].offset = Len(call[c].data)
      /\ temp'[c] = temp[c] \o call[c].data
      /\ Len(temp[c]) = call[c].offset
      /\ UNCHANGED <<file, gone, dest, since, began>>
  BY DEF Receive, Checked, TypeOK, OffsetIsLength, InFlight, Asking
<1>2. /\ call'[c] = [Idle EXCEPT !.pc = IF call[c].eof THEN "collected" ELSE "resolve",
                                 !.offset = call[c].next]
      /\ \A d \in Callers \ {c} : call'[d] = call[d]
      /\ \A d \in Clients \ {c} : temp'[d] = temp[d]
  BY <1>0 DEF Receive, TypeOK
<1>3. /\ call'[c].pc = IF call[c].eof THEN "collected" ELSE "resolve"
      /\ call'[c].offset = call[c].next /\ call'[c].data = <<>>
      /\ ~call'[c].old /\ ~call'[c].tail
  BY <1>2 DEF Idle
<1>4. temp'[c] \in Seq(Bytes) /\ Len(temp'[c]) = call[c].next
  <2>1. temp'[c] \in Seq(Bytes) /\ Len(temp'[c]) = Len(temp[c]) + Len(call[c].data)
    BY <1>0, <1>1, ChunkIsCollected
  <2> QED
    BY <1>0, <1>1, <2>1
<1>5. TypeOK'
  <2>1. call'[c] \in CallType
    BY <1>0, <1>2, IdleIsCall
  <2>2. call' \in [Callers -> CallType]
    BY <1>2, <2>1 DEF Receive, TypeOK
  <2>3. temp' \in [Clients -> Seq(Bytes)]
    BY <1>2, <1>4 DEF Receive, TypeOK
  <2> QED
    BY <1>1, <2>2, <2>3 DEF TypeOK
<1>6. since[c] # "rewritten" =>
        /\ began[c] <= Len(file) /\ call[c].next <= Len(file)
        /\ call[c].offset <= call[c].next
        /\ call[c].data = SubSeq(file, call[c].offset + 1, call[c].next)
        /\ call[c].eof => call[c].next >= began[c]
  <2> SUFFICES ASSUME since[c] # "rewritten"
               PROVE  /\ began[c] <= Len(file) /\ call[c].next <= Len(file)
                      /\ call[c].offset <= call[c].next
                      /\ call[c].data = SubSeq(file, call[c].offset + 1, call[c].next)
                      /\ call[c].eof => call[c].next >= began[c]
    OBVIOUS
  <2>1. /\ began[c] <= Len(file) /\ began[c] <= call[c].size /\ call[c].next <= Len(file)
        /\ call[c].next = Start(c) + Len(call[c].data)
        /\ call[c].data = SubSeq(file, Start(c) + 1, call[c].next)
        /\ call[c].eof => call[c].next >= call[c].size
    BY <1>0, <1>1 DEF Told, AsSent, Sized, Answered, InFlight, Asking
  <2>2. call[c].size \in Nat /\ Start(c) \in Nat
    BY <1>0 DEF TypeOK, CallType, Start, Least
  <2>3. Start(c) = call[c].offset
    BY <1>0, <1>1, <2>1, <2>2
  <2>4. call[c].data = SubSeq(file, call[c].offset + 1, call[c].next)
    BY <2>1, <2>3
  <2>5. call[c].offset <= call[c].next
    BY <1>0, <1>1
  <2>6. call[c].eof => call[c].next >= began[c]
    BY <1>0, <2>1, <2>2
  <2> HIDE DEF FetchInv
  <2> QED
    BY <2>1, <2>4, <2>5, <2>6
<1>7. Told(c)'
  BY <1>0, <1>1, <1>3, <1>6 DEF Told, Sized, Answered
<1>8. Copied(c)'
  <2> SUFFICES ASSUME since[c] # "rewritten"
               PROVE  /\ IsPrefix(temp'[c], file)
                      /\ call'[c].pc = "collected" => Len(temp'[c]) >= began[c]
    BY <1>1, <1>3 DEF Copied
  <2>2. temp[c] = SubSeq(file, 1, call[c].offset)
    BY <1>0, <1>1 DEF Copied, IsPrefix, InFlight, Asking
  <2>4. 1 \in 1 .. Len(file) + 1 /\ call[c].offset \in 1 - 1 .. Len(file)
        /\ call[c].next \in call[c].offset .. Len(file)
    BY <1>0, <1>6
  <2>5. SubSeq(file, 1, call[c].offset) \o SubSeq(file, call[c].offset + 1, call[c].next)
          = SubSeq(file, 1, call[c].next)
    BY <1>0, <2>4, ConcatAdjacentSubSeq
  <2>6. IsPrefix(temp'[c], file)
    BY <1>1, <1>4, <1>6, <2>2, <2>5 DEF IsPrefix
  <2> QED
    BY <1>3, <1>4, <1>6, <2>6
<1>9. DestinationIsCopied'
  BY <1>0, <1>1, <1>2, <1>3, DestinationKept DEF InFlight, Asking
<1>10. call'[c].data \in Seq(Bytes) /\ call'[c].pc \notin {"idle", "stat", "open", "read"}
  BY <1>3, EmptySeq
<1> QED
  BY <1>0, <1>1, <1>2, <1>3, <1>4, <1>5, <1>7, <1>8, <1>9, <1>10, OthersKeep

(* The move: the client that moved its copy owns the destination, whoever did before. *)
LEMMA FinishPreserves ==
  ASSUME FetchInv, NEW c \in Clients, Finish(c)
  PROVE  FetchInv'
<1> USE DEF FetchInv
<1>0. c \in Callers /\ c \notin Readers /\ \A d \in Clients : d \in Callers
  BY NoClientAssumption DEF Callers
<1>1. /\ call[c].pc = "collected" /\ call'[c].pc = "done"
      /\ call'[c].offset = call[c].offset /\ call'[c].data = call[c].data
      /\ call'[c].old = call[c].old /\ call'[c].tail = call[c].tail
      /\ \A d \in Callers \ {c} : call'[d] = call[d]
      /\ UNCHANGED <<file, gone, temp, since, began>>
  BY <1>0 DEF Finish, TypeOK, CallType
<1>2. /\ dest'.by = c /\ dest'.bytes = temp[c]
      /\ dest'.rivals = IF dest.by = NoClient
                        THEN {d \in Clients : call[d].pc \in InFlight} ELSE dest.rivals
  BY DEF Finish
<1>3. TypeOK'
  <2>1. call' \in [Callers -> CallType]
    BY DEF Finish, TypeOK, CallType
  <2>2. /\ dest'.by \in Clients \cup {NoClient} /\ dest'.bytes \in Seq(Bytes)
        /\ dest'.rivals \subseteq Clients
    BY <1>2 DEF TypeOK
  <2> QED
    BY <1>1, <2>1, <2>2 DEF TypeOK
<1>4. Told(c)' /\ Copied(c)'
  BY <1>0, <1>1 DEF Told, Copied, Sized, Answered, InFlight
<1>5. DestinationIsCopied'
  <2>1. call'[dest'.by].pc = "done" /\ dest'.bytes = temp'[dest'.by]
    BY <1>1, <1>2
  <2>2. ASSUME NEW d \in Clients, call'[d].pc \in InFlight \cup {"done"}
        PROVE  d \in dest'.rivals
    <3>1. call[d].pc \in InFlight \cup {"done"}
      BY <1>0, <1>1, <2>2 DEF InFlight
    <3>2. CASE dest.by = NoClient
      BY <1>2, <3>1, <3>2 DEF DestinationIsCopied
    <3>3. CASE dest.by # NoClient
      BY <1>2, <3>1, <3>3 DEF DestinationIsCopied
    <3> QED
      BY <3>2, <3>3
  <2>3. dest'.by # NoClient
    BY <1>2, NoClientAssumption
  <2> QED
    BY <2>1, <2>2, <2>3 DEF DestinationIsCopied
<1>6. /\ ~call'[c].old /\ ~call'[c].tail /\ call'[c].data \in Seq(Bytes)
      /\ Len(temp'[c]) = call'[c].offset
  BY <1>0, <1>1 DEF OldIsRead, ClientsStartEmpty, OffsetIsLength, InFlight
<1> QED
  BY <1>0, <1>1, <1>3, <1>4, <1>5, <1>6, OthersKeep

LEMMA FailPreserves ==
  ASSUME FetchInv, NEW c \in Callers, Fail(c)
  PROVE  FetchInv'
<1> USE DEF FetchInv
<1>1. /\ call[c].pc \in InFlight /\ call'[c] = [Idle EXCEPT !.pc = "failed"]
      /\ \A d \in Callers \ {c} : call'[d] = call[d]
      /\ \A d \in Clients \ {c} : temp'[d] = temp[d]
      /\ UNCHANGED <<file, gone, dest, since, began>>
  BY DEF Fail, TypeOK
<1>2. call'[c].pc = "failed" /\ ~call'[c].old /\ ~call'[c].tail /\ call'[c].data = <<>>
  BY <1>1 DEF Idle
<1>3. TypeOK'
  <2>1. call'[c] \in CallType
    BY <1>1, IdleIsCall
  <2>2. call' \in [Callers -> CallType]
    BY <1>1, <2>1 DEF Fail, TypeOK
  <2>3. temp' \in [Clients -> Seq(Bytes)]
    BY EmptySeq DEF Fail, TypeOK
  <2> QED
    BY <1>1, <2>2, <2>3 DEF TypeOK
<1>4. Told(c)' /\ Copied(c)'
  BY <1>2 DEF Told, Copied, InFlight, Asking, Sized, Answered
<1>5. DestinationIsCopied'
  BY <1>1, <1>2, DestinationKept DEF InFlight, Asking
<1>6. call'[c].data \in Seq(Bytes)
  BY <1>2, EmptySeq
<1> QED
  BY <1>1, <1>2, <1>3, <1>4, <1>5, <1>6, OthersKeep DEF InFlight, Asking

LEMMA ShowPreserves ==
  ASSUME FetchInv, NEW r \in Readers, Show(r)
  PROVE  FetchInv'
<1> USE DEF FetchInv
<1>0. r \in Callers /\ r \notin Clients
  BY NoClientAssumption DEF Callers
<1>1. /\ call[r].pc = "receive" /\ call'[r].pc = "done" /\ call'[r].old = call[r].old
      /\ call'[r].next = call[r].next /\ call'[r].data = call[r].data
      /\ call'[r].size = call[r].size /\ call'[r].offset = call[r].offset
      /\ call'[r].tail = call[r].tail
      /\ \A d \in Callers \ {r} : call'[d] = call[d]
      /\ UNCHANGED <<file, gone, temp, dest, since, began>>
  BY <1>0 DEF Show, TypeOK, CallType
<1>2. TypeOK'
  <2>1. call' \in [Callers -> CallType]
    BY DEF Show, TypeOK, CallType
  <2> QED
    BY <1>1, <2>1 DEF TypeOK
<1>3. Told(r)'
  BY <1>0, <1>1 DEF Told, InFlight, Asking, Sized, Answered, Start, AsSent
<1>4. DestinationIsCopied'
  BY <1>0, <1>1, DestinationKept
<1>5. ~call'[r].old
  BY <1>0, <1>1 DEF OldIsRead
<1> QED
  BY <1>0, <1>1, <1>2, <1>3, <1>4, <1>5, OthersKeep

LEMMA StepPreserves == FetchInv /\ [Next]_vars => FetchInv'
<1> SUFFICES ASSUME FetchInv, [Next]_vars PROVE FetchInv'
  OBVIOUS
<1>1. CASE UNCHANGED vars
  BY <1>1 DEF vars, FetchInv, TypeOK, OldIsRead, GoneIsRewritten, ClientsStartEmpty,
     OffsetIsLength, DestinationIsCopied, Told, Copied, Sized, Answered, Start
<1>2. CASE Next
  <2>1. CASE Remove
    <3>1. file \in Contents
      BY DEF FetchInv, TypeOK
    <3> QED
      BY <2>1, <3>1, RewritePreserves
  <2> QED
    BY <1>2, <2>1, GrowPreserves, RewritePreserves, FetchBeginPreserves,
       LogsBeginPreserves, ResolvePreserves, StatPreserves, OpenPreserves,
       ReadPreserves, MissingPreserves, ReceivePreserves, FinishPreserves,
       FailPreserves, ShowPreserves DEF Next, Helper
<1> QED
  BY <1>1, <1>2

-----------------------------------------------------------------------------
(* What the theorems below rest on: each answer in flight is a true part of the
   file while the job does not rewrite it (remote_helper.py:326-397). *)
THEOREM FetchIsInvariant == Spec => []FetchInv
<1> QED
  BY InitEstablishes, StepPreserves, PTL DEF Spec

(* Offsets are natural numbers and chunks are bytes, whatever size was read
   (remote_helper.py:340-397). *)
THEOREM FetchTypeCorrect == Spec => []TypeOK
<1>1. FetchInv => TypeOK
  BY DEF FetchInv
<1> QED
  BY <1>1, FetchIsInvariant, PTL

(* The next offset is the number of bytes collected (service.py:233-251). *)
THEOREM OffsetsAreLengths == Spec => []OffsetIsLength
<1>1. FetchInv => OffsetIsLength
  BY DEF FetchInv
<1> QED
  BY <1>1, FetchIsInvariant, PTL

(* A file that only grew is copied without a gap, a repetition or a loss
   (experiment.py:256-291). *)
THEOREM CopiesAreFaithful == Spec => []CopyIsFaithful
<1>1. FetchInv => CopyIsFaithful
  BY DEF FetchInv, Copied, CopyIsFaithful, WholeCopy, InFlight
<1> QED
  BY <1>1, FetchIsInvariant, PTL

(* However many fetches move their copies to one destination, what is there is the
   faithful copy of one that reported success (experiment.py:262-284). *)
THEOREM DestinationsAreFaithful == Spec => []DestinationIsFaithful
<1>1. FetchInv => DestinationIsFaithful
  BY DEF FetchInv, TypeOK, DestinationIsCopied, Copied, DestinationIsFaithful, WholeCopy
<1> QED
  BY <1>1, FetchIsInvariant, PTL

(* No fetch replaces a destination that was there before it began, with any number
   of fetches that overlap (experiment.py:259, 282). *)
THEOREM FoundFilesAreKept == Spec => []FoundIsKept
<1>1. FetchInv => FoundIsKept
  BY DEF FetchInv, TypeOK, DestinationIsCopied, FoundIsKept
<1> QED
  BY <1>1, FetchIsInvariant, PTL

(* What a reader is sent of a file that only grew. *)
LEMMA TextIsPart ==
  ASSUME FetchInv, NEW r \in Readers, call[r].pc \in {"receive", "done"},
         since[r] # "rewritten", NEW i \in 1 .. Len(call[r].data)
  PROVE  call[r].data[i] = file[Start(r) + i] \/ Lost(r, i)
<1> DEFINE from == Start(r)
           s == SubSeq(file, from + 1, call[r].next)
           n == Len(call[r].data)
<1>1. /\ r \in Callers /\ file \in Seq(Bytes) /\ Len(file) \in Nat
      /\ from \in Nat /\ call[r].next \in Nat /\ n \in Nat
  BY ContentsAreSeqs, LenProperties DEF FetchInv, Callers, TypeOK, CallType, Start, Least
<1>2. call[r].next = from + n /\ call[r].next <= Len(file) /\ call[r].data = Decoded(s)
  BY <1>1 DEF FetchInv, Told, AsSent, Answered
<1> HIDE DEF from, s, n
<1>3. \A k \in 1 .. Len(file) : file[k] \in Bytes
  BY <1>1, LenProperties
<1>4. /\ s \in Seq(Bytes) /\ Len(s) = n
      /\ \A k \in 1 .. n : s[k] = file[from + k]
  <2>1. \A k \in from + 1 .. call[r].next : file[k] \in Bytes
    BY <1>1, <1>2, <1>3
  <2>2. /\ SubSeq(file, from + 1, call[r].next) \in Seq(Bytes)
        /\ Len(SubSeq(file, from + 1, call[r].next))
             = IF from + 1 <= call[r].next THEN call[r].next - (from + 1) + 1 ELSE 0
        /\ \A k \in 1 .. call[r].next - (from + 1) + 1 :
             SubSeq(file, from + 1, call[r].next)[k] = file[from + 1 + k - 1]
    BY <1>1, <2>1, SubSeqProperties
  <2>3. s \in Seq(Bytes) /\ Len(s) = n
    BY <1>1, <1>2, <2>2 DEF s
  <2>4. ASSUME NEW k \in 1 .. n PROVE s[k] = file[from + k]
    <3>1. k \in 1 .. call[r].next - (from + 1) + 1 /\ from + 1 + k - 1 = from + k
      BY <1>1, <1>2
    <3> QED
      BY <2>2, <3>1 DEF s
  <2> QED
    BY <2>3, <2>4
<1>5. i \in 1 .. n /\ Decoded(s)[i] = IF Complete(s, i) THEN s[i] ELSE Replaced
  BY <1>4, DecodedFacts DEF n
<1>6. CASE Complete(s, i)
  BY <1>2, <1>4, <1>5, <1>6 DEF from
<1>7. CASE ~Complete(s, i)
  <2> DEFINE at == from + i
  <2>1. call[r].data[i] = Replaced /\ s[i] \in {Lead, Trail} /\ file[at] = s[i]
    BY <1>2, <1>4, <1>5, <1>7 DEF Complete
  <2>2. ASSUME i \notin {1, n}, Complete(file, at)
        PROVE  FALSE
    <3>1. i - 1 \in 1 .. n /\ i + 1 \in 1 .. n /\ i < Len(s) /\ i > 1
      BY <1>1, <1>4, <1>5, <2>2
    <3>2. s[i - 1] = file[at - 1] /\ s[i + 1] = file[at + 1]
      <4>1. from + (i - 1) = at - 1 /\ from + (i + 1) = at + 1
        BY <1>1, <1>5
      <4> QED
        BY <1>4, <3>1, <4>1
    <3> HIDE DEF at
    <3> QED
      BY <1>7, <2>1, <2>2, <3>1, <3>2 DEF Complete
  <2> QED
    BY <2>1, <2>2 DEF Lost, from, n
<1> QED
  BY <1>6, <1>7

(* A log read from next_offset on starts where the last chunk stopped, and its text
   lacks only the characters that the chunk's ends cut (remote_helper.py:340-360). *)
THEOREM LogsContinue == Spec => []LogContinues
<1>1. ASSUME FetchInv PROVE LogContinues
  <2> SUFFICES ASSUME NEW r \in Readers, call[r].pc \in {"receive", "done"},
                      since[r] # "rewritten"
               PROVE  /\ call[r].tail \/ call[r].offset <= began[r]
                           => Start(r) = call[r].offset
                      /\ call[r].next = Start(r) + Len(call[r].data)
                      /\ call[r].next <= Len(file)
                      /\ \A i \in 1 .. Len(call[r].data) :
                           call[r].data[i] = file[Start(r) + i] \/ Lost(r, i)
    BY DEF LogContinues
  <2>1. /\ r \in Callers /\ call[r].offset \in Nat /\ call[r].size \in Nat
        /\ began[r] \in Nat
    BY <1>1 DEF FetchInv, Callers, TypeOK, CallType
  <2>2. /\ began[r] <= call[r].size /\ (call[r].tail => call[r].offset <= call[r].size)
        /\ call[r].next = Start(r) + Len(call[r].data) /\ call[r].next <= Len(file)
    BY <1>1, <2>1 DEF FetchInv, Told, Sized, Answered
  <2>3. call[r].tail \/ call[r].offset <= began[r] => Start(r) = call[r].offset
    BY <2>1, <2>2 DEF Start, Least
  <2> QED
    BY <1>1, <2>2, <2>3, TextIsPart
<1> QED
  BY <1>1, FetchIsInvariant, PTL

-----------------------------------------------------------------------------
(* The file that a reader has open, and an answer that is empty and not the last. *)
OpenedFile(c) == IF call[c].old THEN call[c].bytes ELSE file
Idles(c) == call[c].data = <<>> /\ ~call[c].eof

LEMMA EmptyChunk ==
  ASSUME TypeOK, NEW c \in Callers, Chunk(c) = <<>>, ~AtEnd(c)
  PROVE  Len(OpenedFile(c)) < call[c].size
<1> DEFINE f == OpenedFile(c)
           to == Least(Start(c) + Limit(c), Len(f))
<1>1. f \in Seq(Bytes) /\ Start(c) \in Nat /\ call[c].size \in Nat
  BY ContentsAreSeqs, ChunkFacts DEF OpenedFile, TypeOK, CallType
<1>2. Len(f) \in Nat /\ Limit(c) \in Nat \ {0}
  BY <1>1, LimitAssumption, LenProperties DEF Limit
<1>3. Chunk(c) = SubSeq(f, Start(c) + 1, to)
  BY DEF Chunk, OpenedFile
<1>4. to \in Nat /\ to <= Len(f) /\ (to = Len(f) \/ to = Start(c) + Limit(c))
  BY <1>1, <1>2 DEF Least
<1>5. Start(c) < call[c].size
  BY <1>1, EmptySeq DEF AtEnd, NextOffset
<1> HIDE DEF f, to
<1>6. to <= Start(c)
  <2> SUFFICES ASSUME Start(c) < to PROVE FALSE
    BY <1>1, <1>4
  <2>1. \A i \in Start(c) + 1 .. to : f[i] \in Bytes
    BY <1>1, <1>2, <1>4, ElementOfSeq
  <2>2. Len(SubSeq(f, Start(c) + 1, to)) = to - Start(c)
    BY <1>1, <1>4, <2>1, SubSeqProperties
  <2>3. SubSeq(f, Start(c) + 1, to) = <<>>
    BY <1>3
  <2>4. Len(SubSeq(f, Start(c) + 1, to)) = 0
    BY <2>3, EmptySeq
  <2> QED
    BY <1>1, <1>4, <2>2, <2>4
<1>7. Len(f) < call[c].size
  BY <1>1, <1>2, <1>4, <1>5, <1>6
<1> QED
  BY <1>7 DEF f

(* An answer without bytes is of an empty chunk. *)
LEMMA NothingSent ==
  ASSUME TypeOK, NEW c \in Callers, Sent(c) = <<>>
  PROVE  Chunk(c) = <<>>
BY ChunkFacts, SentFacts, EmptySeq

(* Where a step that only moves a caller, and a new request, leave the callers. *)
LEMMA MovesTo ==
  ASSUME call \in [Callers -> CallType], NEW d \in Callers, NEW pc,
         call' = [call EXCEPT ![d].pc = pc]
  PROVE  \A c \in Callers : call'[c].pc = IF c = d THEN pc ELSE call[c].pc
BY DEF CallType

LEMMA BeginAsks ==
  ASSUME call \in [Callers -> CallType], NEW d \in Callers, NEW offset, NEW tail,
         Begin(d, offset, tail)
  PROVE  \A c \in Callers : call'[c].pc = IF c = d THEN "resolve" ELSE call[c].pc
BY DEF Begin, Idle

(* Which step can bring a caller an answer. *)
LEMMA WhoAnswers ==
  ASSUME TypeOK, Next, NEW c \in Callers, call[c].pc # "receive", call'[c].pc = "receive"
  PROVE  HelperRead(c) \/ (c \in Readers /\ HelperMissing(c))
<1>0. call'[c].pc # call[c].pc /\ call \in [Callers -> CallType]
  BY DEF TypeOK
<1>1. ASSUME NEW b \in Bytes PROVE ~Grow(b)
  BY DEF Grow
<1>2. ASSUME NEW f \in Contents PROVE ~Overwrite(f) /\ ~Replace(f) /\ ~Remove
  <2>1. ~OpenedKeep
    BY <1>0 DEF OpenedKeep, CallType
  <2> QED
    BY <2>1, <1>0 DEF Overwrite, Replace, Remove
<1>3. ASSUME NEW d \in Clients PROVE ~FetchBegin(d) /\ ~Receive(d) /\ ~Finish(d)
  <2>1. d \in Callers
    BY DEF Callers
  <2>2. ~FetchBegin(d)
    BY <2>1, <1>0, BeginAsks, MovesTo DEF FetchBegin
  <2>3. ~Receive(d)
    <3> DEFINE pc == IF call[d].eof THEN "collected" ELSE "resolve"
    <3>1. [Idle EXCEPT !.pc = pc, !.offset = call[d].next].pc = pc /\ pc # "receive"
      BY DEF Idle
    <3> QED
      BY <2>1, <3>1 DEF Receive, TypeOK
  <2>4. ~Finish(d)
    BY <2>1, <1>0, MovesTo DEF Finish
  <2> QED
    BY <2>2, <2>3, <2>4
<1>4. ASSUME NEW d \in Readers PROVE ~LogsBegin(d) /\ ~Show(d)
  <2>1. d \in Callers
    BY DEF Callers
  <2>2. ~LogsBegin(d)
    BY <2>1, <1>0, BeginAsks DEF LogsBegin
  <2>3. ~Show(d)
    BY <2>1, <1>0, MovesTo DEF Show
  <2> QED
    BY <2>2, <2>3
<1>5. ASSUME NEW d \in Callers
      PROVE  ~HelperResolve(d) /\ ~HelperStat(d) /\ ~HelperOpen(d) /\ ~Fail(d)
  <2>1. ~HelperResolve(d) /\ ~HelperOpen(d)
    BY <1>0, MovesTo DEF HelperResolve, HelperOpen
  <2>2. ~HelperStat(d)
    BY <1>0 DEF HelperStat, CallType
  <2>3. ~Fail(d)
    <3>1. [Idle EXCEPT !.pc = "failed"].pc = "failed"
      BY DEF Idle
    <3> QED
      BY <1>0, <3>1 DEF Fail
  <2> QED
    BY <2>1, <2>2, <2>3
<1>6. ASSUME NEW d \in Callers, d # c PROVE ~HelperRead(d) /\ ~HelperMissing(d)
  BY <1>6 DEF HelperRead, HelperMissing, TypeOK
<1>7. \E f : f \in Contents
  BY DEF TypeOK
<1> QED
  BY <1>1, <1>2, <1>3, <1>4, <1>5, <1>6, <1>7 DEF Next, Helper, Callers

(* What a loop that ends rests on: the helper gives an answer that is empty and
   not the last one only when the file was cut below its size after the stat
   (remote_helper.py:378-392). *)
EmptyNeedsACut ==
  [][\A c \in Callers :
       call[c].pc = "read" /\ call'[c].pc = "receive" /\ Idles(c)'
         => Len(OpenedFile(c)) < call[c].size]_vars

THEOREM EmptyAnswersNeedACut == Spec => EmptyNeedsACut
<1>1. ASSUME TypeOK, Next, NEW c \in Callers,
             call[c].pc = "read", call'[c].pc = "receive", Idles(c)'
      PROVE  Len(OpenedFile(c)) < call[c].size
  <2> USE <1>1
  <2>1. HelperRead(c)
    BY WhoAnswers DEF HelperMissing
  <2>2. Sent(c) = <<>> /\ ~AtEnd(c)
    BY <2>1 DEF HelperRead, Idles, TypeOK, CallType
  <2>3. Chunk(c) = <<>>
    BY <2>2, NothingSent
  <2> QED
    BY <2>2, <2>3, EmptyChunk
<1>2. TypeOK /\ [Next]_vars =>
        [\A c \in Callers :
           call[c].pc = "read" /\ call'[c].pc = "receive" /\ Idles(c)'
             => Len(OpenedFile(c)) < call[c].size]_vars
  BY <1>1
<1> QED
  BY <1>2, FetchTypeCorrect, PTL DEF Spec, EmptyNeedsACut

(* While the job does not rewrite its file, no answer is of that kind. *)
AnswersMoveOn ==
  \A c \in Callers : call[c].pc = "receive" /\ since[c] # "rewritten" => ~Idles(c)

LEMMA AnswersStep ==
  ASSUME FetchInv, AnswersMoveOn, [Next]_vars
  PROVE  AnswersMoveOn'
<1> SUFFICES ASSUME NEW c \in Callers, call'[c].pc = "receive", since'[c] # "rewritten", Idles(c)'
             PROVE  FALSE
  BY DEF AnswersMoveOn, Idles
<1>0. TypeOK
  BY DEF FetchInv
<1>1. CASE call[c].pc # "receive"
  <2>1. Next
    BY <1>1 DEF vars
  <2>2. CASE HelperRead(c)
    <3>1. Sent(c) = <<>> /\ ~AtEnd(c)
      BY <1>0, <2>2 DEF HelperRead, Idles, TypeOK, CallType
    <3>2. call[c].pc = "read" /\ since[c] # "rewritten" /\ ~call[c].old
      BY <2>2 DEF HelperRead, FetchInv, OldIsRead
    <3>3. call[c].size <= Len(file) /\ call[c].size \in Nat /\ Len(file) \in Nat
      BY <1>0, <3>2, ContentsAreSeqs DEF FetchInv, Told, Sized, TypeOK, CallType
    <3>4. Chunk(c) = <<>>
      BY <1>0, <3>1, NothingSent
    <3> QED
      BY <1>0, <3>1, <3>2, <3>3, <3>4, EmptyChunk DEF OpenedFile
  <2>3. CASE HelperMissing(c)
    BY <1>0, <2>3 DEF HelperMissing, Idles, TypeOK, CallType
  <2> QED
    BY <1>0, <1>1, <2>1, <2>2, <2>3, WhoAnswers
<1>2. CASE call[c].pc = "receive"
  <2>1. CASE call'[c] = call[c] /\ since[c] # "rewritten"
    BY <1>2, <2>1 DEF AnswersMoveOn, Idles
  <2>2. call'[c] = call[c]
    <3>1. ASSUME NEW d \in Callers,
                 Receive(d) \/ Finish(d) \/ Show(d) \/ Fail(d) \/ Helper(d)
                 \/ FetchBegin(d) \/ LogsBegin(d) \/ HelperMissing(d)
          PROVE  call'[c] = call[c]
      <4>1. CASE d = c
        <5>1. ~Receive(c)
          <6> DEFINE pc == IF call[c].eof THEN "collected" ELSE "resolve"
          <6>1. [Idle EXCEPT !.pc = pc, !.offset = call[c].next].pc = pc /\ pc # "receive"
            BY DEF Idle
          <6> QED
            BY <1>0, <6>1 DEF Receive, TypeOK
        <5>2. ~Fail(c) /\ ~Show(c)
          BY <1>0 DEF Fail, Show, Idle, TypeOK, CallType
        <5> QED
          BY <1>2, <3>1, <4>1, <5>1, <5>2 DEF Finish, Helper, HelperResolve, HelperStat,
             HelperOpen, HelperRead, HelperMissing, FetchBegin, LogsBegin
      <4>2. CASE d # c
        BY <1>0, <3>1, <4>2 DEF Receive, Finish, Show, Fail, Helper, HelperResolve,
           HelperStat, HelperOpen, HelperRead, HelperMissing, FetchBegin, LogsBegin, Begin,
           TypeOK
      <4> QED
        BY <4>1, <4>2
    <3>2. ASSUME NEW f, Overwrite(f) \/ Replace(f) \/ Remove
          PROVE  call'[c] = call[c]
      BY <1>0, <1>2, <3>2 DEF Overwrite, Replace, Remove, OpenedKeep, TypeOK
    <3>3. ASSUME NEW b, Grow(b) PROVE call'[c] = call[c]
      BY <3>3 DEF Grow
    <3>4. CASE UNCHANGED vars
      BY <3>4 DEF vars
    <3> QED
      BY <3>1, <3>2, <3>3, <3>4 DEF Next, Callers
  <2>3. since[c] # "rewritten"
    <3>1. CASE since' = since
      BY <3>1
    <3>2. CASE since' # since
      <4>1. ASSUME NEW d \in Callers, FetchBegin(d) \/ LogsBegin(d)
            PROVE  since'[c] = since[c]
        BY <1>0, <1>2, <4>1 DEF FetchBegin, LogsBegin, Begin, TypeOK
      <4>2. ASSUME NEW f, Overwrite(f) \/ Replace(f) \/ Remove
            PROVE  since'[c] = "rewritten"
        BY <4>2 DEF Overwrite, Replace, Remove, Rewritten
      <4>3. (\E d \in Callers : FetchBegin(d) \/ LogsBegin(d))
            \/ \E f : Overwrite(f) \/ Replace(f) \/ Remove
        BY <3>2 DEF Next, vars, Callers, Grow, Receive, Finish, Show, Fail, Helper,
           HelperResolve, HelperStat, HelperOpen, HelperRead, HelperMissing
      <4> QED
        BY <4>1, <4>2, <4>3
    <3> QED
      BY <3>1, <3>2
  <2> QED
    BY <2>1, <2>2, <2>3
<1> QED
  BY <1>1, <1>2

(* What FetchEnds needs of each turn of the loop: while the job does not rewrite
   its file, a turn that is not the last moves the offset on, and never beyond
   the file (experiment.py:267-279). *)
TurnsMoveOn ==
  [][\A c \in Clients :
       call[c].pc = "receive" /\ call'[c].pc = "resolve" /\ since[c] # "rewritten"
         => call'[c].offset \in call[c].offset + 1 .. Len(file)]_vars

THEOREM LoopsMoveOn == Spec => TurnsMoveOn
<1>1. ASSUME FetchInv, AnswersMoveOn, Next, NEW c \in Clients,
             call[c].pc = "receive", call'[c].pc = "resolve", since[c] # "rewritten"
      PROVE  call'[c].offset \in call[c].offset + 1 .. Len(file)
  <2> USE <1>1
  <2>0. TypeOK /\ c \in Callers
    BY DEF FetchInv, Callers
  <2>1. Receive(c)
    <3>1. ~\E b \in Bytes : Grow(b)
      BY DEF Grow
    <3>2. ~Remove /\ ~\E f \in Contents : Overwrite(f) \/ Replace(f)
      BY <2>0 DEF Overwrite, Replace, Remove, OpenedKeep, TypeOK
    <3>3. ~\E d \in Callers : Helper(d) \/ Fail(d)
      BY <2>0 DEF Helper, HelperResolve, HelperStat, HelperOpen, HelperRead, Fail, Idle,
                  TypeOK, CallType
    <3>4. ~\E r \in Readers : LogsBegin(r) \/ HelperMissing(r) \/ Show(r)
      BY <2>0, NoClientAssumption
         DEF LogsBegin, Begin, HelperMissing, Show, Idle, TypeOK, CallType
    <3>5. ~\E d \in Clients : FetchBegin(d) \/ Finish(d)
      BY <2>0 DEF FetchBegin, Begin, Finish, Idle, TypeOK, CallType
    <3>6. \A d \in Clients : Receive(d) => d = c
      BY <2>0 DEF Receive, TypeOK
    <3> QED
      BY <3>1, <3>2, <3>3, <3>4, <3>5, <3>6 DEF Next
  <2>2. call'[c].offset = call[c].next /\ ~call[c].eof
        /\ call[c].next - call[c].offset = Len(call[c].data)
    BY <2>0, <2>1 DEF Receive, Checked, Idle, TypeOK, CallType
  <2>3. call[c].data # <<>>
    BY <2>0, <2>2 DEF AnswersMoveOn, Idles
  <2>4. call[c].next \in Nat /\ call[c].offset \in Nat /\ call[c].data \in Seq(Bytes)
    BY <2>0 DEF TypeOK, CallType, FetchInv, ClientsStartEmpty
  <2>5. Len(call[c].data) \in Nat \ {0} /\ Len(file) \in Nat
    BY <2>0, <2>3, <2>4, EmptySeq, ContentsAreSeqs, LenProperties DEF TypeOK
  <2>6. call[c].next <= Len(file)
    BY <2>0, <2>4, <2>5 DEF FetchInv, Told, Answered
  <2> QED
    BY <2>2, <2>4, <2>5, <2>6
<1>2. FetchInv /\ AnswersMoveOn /\ [Next]_vars =>
        [\A c \in Clients :
           call[c].pc = "receive" /\ call'[c].pc = "resolve" /\ since[c] # "rewritten"
             => call'[c].offset \in call[c].offset + 1 .. Len(file)]_vars
  BY <1>1
<1>3. Init => AnswersMoveOn
  BY DEF Init, Idle, AnswersMoveOn
<1>4. Spec => []AnswersMoveOn
  BY <1>3, AnswersStep, FetchIsInvariant, PTL DEF Spec
<1> QED
  BY <1>2, <1>4, FetchIsInvariant, PTL DEF Spec, TurnsMoveOn
=============================================================================
