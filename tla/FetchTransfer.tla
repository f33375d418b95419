---------------------------- MODULE FetchTransfer ---------------------------
(***************************************************************************)
(* Copying a file of a job, and reading its log, in chunks, while the job    *)
(* goes on writing it: the helper's resolve, stat, open and read             *)
(* (action_fetch, action_logs), the service's check of the answer, and the    *)
(* loop of `exp fetch', which collects the chunks in a temporary file and     *)
(* moves it over the destination.                                            *)
(*                                                                         *)
(* The job may append to the file, cut or rewrite it in place, remove it, or  *)
(* put a new one in its place, between any two of these steps.               *)
(***************************************************************************)
EXTENDS Integers, Sequences

CONSTANTS Clients,   \* runs of `exp fetch', all with one path and one output
          Readers,   \* callers of the logs endpoint
          NoClient,  \* no client has put the destination there
          Bytes,     \* what a byte of the file may be
          Lead,      \* the first byte of a character of two bytes
          Trail,     \* its second byte
          Replaced,  \* U+FFFD, for a byte that is no part of a character
          MaxLen,    \* bound: how long the file gets
          FetchLimit,  \* chunk size of a fetch, after the service's and the
          LogLimit,    \* helper's limits, and that of a log
          MaxBytes   \* the client's --max-bytes

ASSUME MaxLenAssumption == MaxLen \in Nat
ASSUME LimitAssumption == FetchLimit \in Nat \ {0} /\ LogLimit \in Nat \ {0}
ASSUME MaxBytesAssumption == MaxBytes \in Nat
ASSUME NoClientAssumption == NoClient \notin Clients /\ Clients \cap Readers = {}
ASSUME BytesAssumption == Lead # Trail /\ Replaced \notin Bytes

VARIABLES file,    \* content of the file, the last one if it is gone
          gone,    \* no file has the path
          call,    \* each caller: where its request is, what it saw and got
          temp,    \* each client's temporary file
          dest,    \* the destination: its bytes, the client that put them there, and
                   \* history: the clients under way when there first was one
          since,   \* history: whether the file only grew since a caller began
          began    \* history: the file's length when a caller began

vars == <<file, gone, call, temp, dest, since, began>>

Callers == Clients \cup Readers
Contents == UNION {[1 .. n -> Bytes] : n \in 0 .. MaxLen}
Asking == {"resolve", "stat", "open", "read", "receive"}
InFlight == Asking \cup {"collected"}

Idle == [pc |-> "idle", offset |-> 0, tail |-> FALSE, size |-> 0,
         old |-> FALSE, bytes |-> <<>>, data |-> <<>>, next |-> 0, eof |-> FALSE]

CallType ==
  [pc : InFlight \cup {"idle", "done", "failed"}, offset : Nat, tail : BOOLEAN, size : Nat,
   old : BOOLEAN, bytes : Seq(Bytes), data : Seq(Bytes \cup {Replaced}), next : Nat,
   eof : BOOLEAN]

TypeOK ==
  /\ file \in Contents /\ gone \in BOOLEAN
  /\ call \in [Callers -> CallType]
  /\ temp \in [Clients -> Seq(Bytes)]
  /\ dest.by \in Clients \cup {NoClient} /\ dest.bytes \in Seq(Bytes)
  /\ dest.rivals \subseteq Clients
  /\ since \in [Callers -> {"kept", "rewritten"}]
  /\ began \in [Callers -> Nat]

Init ==
  /\ file \in Contents /\ gone = FALSE
  /\ call = [c \in Callers |-> Idle]
  /\ temp = [c \in Clients |-> <<>>]
  /\ dest = [by |-> NoClient, bytes |-> <<>>, rivals |-> {}]
  /\ since = [c \in Callers |-> "kept"]
  /\ began = [c \in Callers |-> 0]

-----------------------------------------------------------------------------
(* The job's writes. *)
Grow(b) ==
  /\ ~gone /\ Len(file) < MaxLen
  /\ file' = Append(file, b)
  /\ UNCHANGED <<gone, call, temp, dest, since, began>>

Rewritten ==
  /\ since' = [c \in Callers |-> "rewritten"]
  /\ UNCHANGED <<temp, dest, began>>

(* In place: whoever has the file open sees it. *)
Overwrite(f) ==
  /\ ~gone /\ f # file
  /\ file' = f
  /\ UNCHANGED <<gone, call>>
  /\ Rewritten

(* Whoever has the file open keeps the old one. *)
OpenedKeep ==
  call' = [c \in Callers |->
    IF call[c].pc = "read" /\ ~call[c].old
    THEN [call[c] EXCEPT !.old = TRUE, !.bytes = file] ELSE call[c]]

(* By a rename, or where no file was. *)
Replace(f) ==
  /\ file' = f /\ gone' = FALSE
  /\ OpenedKeep
  /\ Rewritten

Remove ==
  /\ ~gone /\ gone' = TRUE
  /\ OpenedKeep
  /\ UNCHANGED file
  /\ Rewritten

-----------------------------------------------------------------------------
Least(m, n) == IF m < n THEN m ELSE n
Most(m, n) == IF m > n THEN m ELSE n

Begin(c, offset, tail) ==
  /\ call' = [call EXCEPT ![c] =
       [Idle EXCEPT !.pc = "resolve", !.offset = offset, !.tail = tail]]
  /\ since' = [since EXCEPT ![c] = "kept"]
  /\ began' = [began EXCEPT ![c] = Len(file)]

(* Slip: the destination is not looked at. *)
FetchBeginBlind(c) ==
  /\ call[c].pc = "idle"
  /\ Begin(c, 0, FALSE)
  /\ UNCHANGED <<file, gone, temp, dest>>

(* command_fetch refuses a destination that is there already. *)
FetchBegin(c) ==
  /\ call[c].pc = "idle"
  /\ \/ /\ dest.by = NoClient
        /\ Begin(c, 0, FALSE)
     \/ /\ dest.by # NoClient
        /\ call' = [call EXCEPT ![c].pc = "failed"]
        /\ UNCHANGED <<since, began>>
  /\ UNCHANGED <<file, gone, temp, dest>>

LogsBegin(r) ==
  /\ call[r].pc \in {"idle", "done", "failed"}
  /\ Begin(r, 0, TRUE) \/ \E offset \in 0 .. MaxLen : Begin(r, offset, FALSE)
  /\ UNCHANGED <<file, gone, temp, dest>>

(* resolve(strict=True); where there is no file it raises, see Fail. *)
HelperResolve(c) ==
  /\ call[c].pc = "resolve" /\ ~gone
  /\ call' = [call EXCEPT ![c].pc = "stat"]
  /\ UNCHANGED <<file, gone, temp, dest, since, began>>

Limit(c) == IF c \in Readers THEN LogLimit ELSE FetchLimit
TailStart(c) == Most(0, Len(file) - Limit(c))

(* stat of the path; only then is the start of a log's tail known. *)
HelperStat(c) ==
  /\ call[c].pc = "stat" /\ ~gone
  /\ call' = [call EXCEPT ![c].pc = "open", ![c].size = Len(file),
       ![c].offset = IF call[c].tail THEN TailStart(c) ELSE @]
  /\ UNCHANGED <<file, gone, temp, dest, since, began>>

HelperOpen(c) ==
  /\ call[c].pc = "open" /\ ~gone
  /\ call' = [call EXCEPT ![c].pc = "read"]
  /\ UNCHANGED <<file, gone, temp, dest, since, began>>

(* action_logs answers for a log that went away after it was resolved. *)
HelperMissing(r) ==
  /\ call[r].pc \in {"stat", "open"} /\ gone
  /\ call' = [call EXCEPT ![r].pc = "receive", ![r].size = 0, ![r].data = <<>>,
                          ![r].next = 0, ![r].eof = TRUE]
  /\ UNCHANGED <<file, gone, temp, dest, since, began>>

(* seek to the offset, or to the size that was read, if that is less. *)
Start(c) == Least(call[c].offset, call[c].size)
Chunk(c) ==
  LET f == IF call[c].old THEN call[c].bytes ELSE file
  IN  SubSeq(f, Start(c) + 1, Least(Start(c) + Limit(c), Len(f)))

(* Slip: computed from the size, not from what was read. *)
NextBySize(c) == Least(Start(c) + Limit(c), call[c].size)
NextOffset(c) == Start(c) + Len(Chunk(c))

(* Slip: one byte too early. *)
AtEndTooSoon(c) == NextOffset(c) + 1 >= call[c].size

(* Slip: the end is only beyond the last byte. *)
AtEndBeyond(c) == NextOffset(c) > call[c].size
AtEnd(c) == NextOffset(c) >= call[c].size

(* A byte that makes a character, alone or with its neighbour. *)
Complete(s, i) ==
  \/ s[i] \notin {Lead, Trail}
  \/ s[i] = Lead /\ i < Len(s) /\ s[i + 1] = Trail
  \/ s[i] = Trail /\ i > 1 /\ s[i - 1] = Lead

(* decode("utf-8", errors="replace"), for characters of one and of two bytes. *)
Decoded(s) == [i \in 1 .. Len(s) |-> IF Complete(s, i) THEN s[i] ELSE Replaced]

(* A log is sent as text, a file in base64. *)
Sent(c) == IF c \in Readers THEN Decoded(Chunk(c)) ELSE Chunk(c)

HelperRead(c) ==
  /\ call[c].pc = "read"
  /\ call' = [call EXCEPT ![c].pc = "receive", ![c].data = Sent(c),
                          ![c].next = NextOffset(c), ![c].eof = AtEnd(c),
                          ![c].old = FALSE, ![c].bytes = <<>>]
  /\ UNCHANGED <<file, gone, temp, dest, since, began>>

-----------------------------------------------------------------------------
(* ConsoleService.fetch: else RemoteError. *)
Checked(c) == call[c].next - call[c].offset = Len(call[c].data)

(* One turn of the client's loop. *)
Receive(c) ==
  /\ call[c].pc = "receive"
  /\ Checked(c)
  /\ call[c].next <= MaxBytes
  /\ temp' = [temp EXCEPT ![c] = @ \o call[c].data]
  /\ call' = [call EXCEPT ![c] =
       [Idle EXCEPT !.pc = IF call[c].eof THEN "collected" ELSE "resolve",
                    !.offset = call[c].next]]
  /\ UNCHANGED <<file, gone, dest, since, began>>

(* os.replace, once all is on the disk: whatever has the name by now is replaced. *)
Finish(c) ==
  /\ call[c].pc = "collected"
  /\ dest' = [by |-> c, bytes |-> temp[c],
              rivals |-> IF dest.by = NoClient
                         THEN {d \in Clients : call[d].pc \in InFlight} ELSE dest.rivals]
  /\ call' = [call EXCEPT ![c].pc = "done"]
  /\ UNCHANGED <<file, gone, temp, since, began>>

(* Slip: the temporary file is moved to the destination in any case. *)
FailKeeping(c) ==
  /\ call[c].pc \in InFlight
  /\ call' = [call EXCEPT ![c] = [Idle EXCEPT !.pc = "failed"]]
  /\ dest' = IF c \in Clients THEN [dest EXCEPT !.by = c, !.bytes = temp[c]] ELSE dest
  /\ UNCHANGED <<file, gone, temp, since, began>>

(* The file is not there, the service refuses the chunk, --max-bytes is passed, a
   call fails on its way, the flush or the move fails, or the client is interrupted:
   the temporary file is removed, the destination left alone. *)
Fail(c) ==
  /\ call[c].pc \in InFlight
  /\ call' = [call EXCEPT ![c] = [Idle EXCEPT !.pc = "failed"]]
  /\ temp' = [d \in Clients |-> IF d = c THEN <<>> ELSE temp[d]]
  /\ UNCHANGED <<file, gone, dest, since, began>>

(* The logs endpoint passes the answer on unchecked. *)
Show(r) ==
  /\ call[r].pc = "receive"
  /\ call' = [call EXCEPT ![r].pc = "done"]
  /\ UNCHANGED <<file, gone, temp, dest, since, began>>

Helper(c) == HelperResolve(c) \/ HelperStat(c) \/ HelperOpen(c) \/ HelperRead(c)

(* What has to fail: a path without a file, and an answer that is refused. *)
MustFail(c) ==
  \/ call[c].pc = "receive"
  \/ call[c].pc \in {"resolve", "stat", "open"} /\ gone
Loop(c) == Helper(c) \/ Receive(c) \/ Finish(c) \/ (MustFail(c) /\ Fail(c))

Next ==
  \/ \E b \in Bytes : Grow(b)
  \/ \E f \in Contents : Overwrite(f) \/ Replace(f)
  \/ Remove
  \/ \E c \in Clients : FetchBegin(c) \/ Receive(c) \/ Finish(c)
  \/ \E r \in Readers : LogsBegin(r) \/ HelperMissing(r) \/ Show(r)
  \/ \E c \in Callers : Helper(c) \/ Fail(c)

Spec == Init /\ [][Next]_vars

(* A client that runs gets an answer to each request, or an error. *)
Fairness == \A c \in Clients : WF_vars(Loop(c))
FairSpec == Spec /\ Fairness

-----------------------------------------------------------------------------
(* Safety *)

(* The client keeps no count of its own: the offset it asks for next is what
   the helper computed from a size that was stale when it read.  The service's
   check makes it the number of bytes collected, whatever the job did. *)
OffsetIsLength ==
  \A c \in Clients : call[c].pc \in InFlight \cup {"done"} =>
    Len(temp[c]) = call[c].offset

IsPrefix(s, t) == Len(s) <= Len(t) /\ s = SubSeq(t, 1, Len(s))

(* A copy that misses nothing of what was there when the fetch began. *)
WholeCopy(c, copy) == IsPrefix(copy, file) /\ Len(copy) >= began[c]

(* Chunks of different moments make one file: if the job only appended (or did
   nothing), the copy is a prefix of the file, and holds at least everything
   that was there when the fetch began. *)
CopyIsFaithful ==
  \A c \in Clients : since[c] # "rewritten" =>
    /\ call[c].pc \in InFlight \cup {"done"} => IsPrefix(temp[c], file)
    /\ call[c].pc \in {"collected", "done"} => WholeCopy(c, temp[c])

(* What has the destination's name is the copy of a fetch that reported success:
   also when several fetches move theirs there, and others break off at any step,
   it is never a part of a copy or a mixture of two (experiment.py:262-284). *)
DestinationIsFaithful ==
  dest.by # NoClient =>
    /\ call[dest.by].pc = "done"
    /\ since[dest.by] # "rewritten" => WholeCopy(dest.by, dest.bytes)

(* A file that was there when a fetch began is never replaced by it.  The look and
   the move are the length of a transfer apart (experiment.py:259, 282): of fetches
   that overlap, the later one replaces what the earlier one has reported as its
   result, and only of these. *)
FoundIsKept ==
  dest.by # NoClient => dest.by \in dest.rivals

(* What became U+FFFD: a byte of a character that the chunk's end cuts, or that
   is no character in the file either. *)
Lost(r, i) ==
  LET at == Start(r) + i IN
  /\ call[r].data[i] = Replaced /\ file[at] \in {Lead, Trail}
  /\ i \in {1, Len(call[r].data)} \/ ~Complete(file, at)

(* Whoever continues a log at next_offset is given the bytes from there on: if the
   file only grew, the chunk starts at the offset that was asked for (a tail: at
   the one that is reported), ends at its next_offset and skips and repeats nothing,
   also when the log grew between the helper's stat and its read.  The text is
   these bytes except for a character that an end of the chunk cuts: its bytes are
   lost to both chunks, as each is decoded by itself (remote_helper.py:358). *)
LogContinues ==
  \A r \in Readers : call[r].pc \in {"receive", "done"} /\ since[r] # "rewritten" =>
    /\ call[r].tail \/ call[r].offset <= began[r] => Start(r) = call[r].offset
    /\ call[r].next = Start(r) + Len(call[r].data)
    /\ call[r].next <= Len(file)
    /\ \A i \in 1 .. Len(call[r].data) :
         call[r].data[i] = file[Start(r) + i] \/ Lost(r, i)

-----------------------------------------------------------------------------
(* Liveness *)

(* Once the job leaves the file alone, every fetch ends: no chunk is both
   empty and not the last. *)
FetchEnds ==
  <>[][UNCHANGED file]_vars =>
    \A c \in Clients : call[c].pc \in InFlight ~> call[c].pc \in {"done", "failed"}
=============================================================================
