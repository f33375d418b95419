---------------------------- MODULE HelperInstall ---------------------------
(***************************************************************************)
(* How remote_helper.py gets to a host: RemoteExecutor.ensure_helper and      *)
(* call, the installer that it runs there, and the cache that counts a helper *)
(* as installed for the life of the console.  Consoles of several versions    *)
(* (the one that is being replaced, and its successor) share a state root;    *)
(* an installer may outlive the call, and the console, that started it.       *)
(***************************************************************************)
EXTENDS Naturals

CONSTANTS Versions,    \* digests of the helper; each console has one
          Threads,     \* threads of consoles
          VersionOf,   \* the version of a thread's console
          NoHelper,    \* there is no file at the helper's path
          Part         \* a file there that is no whole helper

ASSUME VersionAssumption == VersionOf \in [Threads -> Versions]
ASSUME FileAssumption == NoHelper # Part /\ {NoHelper, Part} \cap Versions = {}

VARIABLES helper,     \* the file at the helper's path
          installed,  \* consoles whose cache counts the helper as installed
          pc,         \* where a thread's call is
          inst,       \* the installer that a thread started
          lost        \* history: a version that was there is not any more, since
                      \* another one was put there, or the state root was wiped

vars == <<helper, installed, pc, inst, lost>>

Ats == {"none", "digest", "current", "replace", "ok", "failed"}
Installers == [at : Ats, whole : BOOLEAN]

TypeOK ==
  /\ helper \in Versions \cup {NoHelper, Part}
  /\ installed \subseteq Versions
  /\ pc \in [Threads -> {"idle", "installing", "calling"}]
  /\ inst \in [Threads -> Installers]
  /\ lost \in [Versions -> BOOLEAN]

Init ==
  /\ helper \in Versions \cup {NoHelper}
  /\ installed = {}
  /\ pc = [t \in Threads |-> "idle"]
  /\ inst = [t \in Threads |-> [at |-> "none", whole |-> FALSE]]
  /\ lost = [v \in Versions |-> FALSE]

Goto(t, at) == inst' = [inst EXCEPT ![t].at = at]

Put(file) ==
  /\ helper' = file
  /\ lost' = [v \in Versions |-> v # file /\ (lost[v] \/ v = helper)]

-----------------------------------------------------------------------------
(* The console. *)
Ensure(t) ==
  /\ pc[t] = "idle"
  /\ \/ /\ VersionOf[t] \in installed
        /\ pc' = [pc EXCEPT ![t] = "calling"]
        /\ UNCHANGED inst
     \/ /\ VersionOf[t] \notin installed
        /\ inst[t].at = "none"
        /\ pc' = [pc EXCEPT ![t] = "installing"]
        /\ \E whole \in BOOLEAN :    \* the connection may end within the upload
             inst' = [inst EXCEPT ![t] = [at |-> "digest", whole |-> whole]]
  /\ UNCHANGED <<helper, installed, lost>>

Adds(t) == installed \cup {VersionOf[t]}

Installed(t) ==
  /\ pc[t] = "installing" /\ inst[t].at = "ok"
  /\ installed' = Adds(t)
  /\ pc' = [pc EXCEPT ![t] = "calling"]
  /\ Goto(t, "none")
  /\ UNCHANGED <<helper, lost>>

(* The path is run, whatever is there. *)
Call(t) ==
  /\ pc[t] = "calling"
  /\ pc' = [pc EXCEPT ![t] = "idle"]
  /\ UNCHANGED <<helper, installed, inst, lost>>

(* A failed installer, a timeout, or an answer that is lost: the installer goes on. *)
GiveUp(t) ==
  /\ pc[t] = "installing"
  /\ pc' = [pc EXCEPT ![t] = "idle"]
  /\ UNCHANGED <<helper, installed, inst, lost>>

Restart(v) ==
  /\ installed' = installed \ {v}
  /\ pc' = [t \in Threads |-> IF VersionOf[t] = v THEN "idle" ELSE pc[t]]
  /\ UNCHANGED <<helper, inst, lost>>

-----------------------------------------------------------------------------
(* INSTALL_HELPER, on the host. *)

(* Slip: what came is not compared with its digest. *)
AcceptsAll(t) == TRUE
Accepts(t) == inst[t].whole

InstDigest(t) ==
  /\ inst[t].at = "digest"
  /\ Goto(t, IF Accepts(t) THEN "current" ELSE "failed")
  /\ UNCHANGED <<helper, installed, pc, lost>>

(* Slip: any file there will do. *)
IsAny(t) == helper # NoHelper
IsCurrent(t) == helper = VersionOf[t]

InstCurrent(t) ==
  /\ inst[t].at = "current"
  /\ Goto(t, IF IsCurrent(t) THEN "ok" ELSE "replace")
  /\ UNCHANGED <<helper, installed, pc, lost>>

(* The temporary file is private; only its rename is seen. *)
InstReplace(t) ==
  /\ inst[t].at = "replace"
  /\ Put(IF inst[t].whole THEN VersionOf[t] ELSE Part)
  /\ Goto(t, "ok")
  /\ UNCHANGED <<installed, pc>>

(* An installer dies, or ends and nobody waits for it any more. *)
InstEnd(t) ==
  /\ inst[t].at # "none"
  /\ inst[t].at \in {"ok", "failed"} => pc[t] # "installing"
  /\ Goto(t, IF pc[t] = "installing" THEN "failed" ELSE "none")
  /\ UNCHANGED <<helper, installed, pc, lost>>

Wipe ==
  /\ Put(NoHelper)
  /\ UNCHANGED <<installed, pc, inst>>

Next ==
  \/ \E t \in Threads :
       Ensure(t) \/ Installed(t) \/ Call(t) \/ GiveUp(t)
       \/ InstDigest(t) \/ InstCurrent(t) \/ InstReplace(t) \/ InstEnd(t)
  \/ \E v \in Versions : Restart(v)
  \/ Wipe

Spec == Init /\ [][Next]_vars

-----------------------------------------------------------------------------
(* However uploads break off and installers overlap, what is run is a helper as
   some console has it, or nothing. *)
HelperIsWhole == helper # Part

(* A call runs the helper of its own console, with one exception that the cache
   never heals before a restart: a wipe, or the installer of another version,
   possibly one whose console is gone, came after the installation. *)
RunsItsOwn ==
  \A t \in Threads : pc[t] = "calling" /\ ~lost[VersionOf[t]] => helper = VersionOf[t]
=============================================================================
