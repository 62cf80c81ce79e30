--------------------------- MODULE NanobotSession ---------------------------
(***************************************************************************)
(* A session of a Nanobot: its messages (session/manager.py), the turns    *)
(* that add to them and the command /new (agent/loop.py), and the          *)
(* consolidation that writes older messages to HISTORY.md (agent/memory.py).*)
(*                                                                         *)
(* The turns of a session follow one another, since run() awaits each.     *)
(* What runs beside them is a background consolidation: it starts at the   *)
(* first await of the turn that creates it, takes the messages it has to   *)
(* write, awaits the model, and moves last_consolidated.  It holds the     *)
(* lock of the session, for which /new waits.                              *)
(*                                                                         *)
(* Messages are numbers, in the order in which the session has them.  Left *)
(* out: what they say, MEMORY.md, I/O errors, a model that consolidates    *)
(* nothing, and turns of other sessions.                                   *)
(*                                                                         *)
(* Definitions whose name ends in _Bug are variants with a bug a change of *)
(* the code could introduce; no action uses them.                          *)
(***************************************************************************)
EXTENDS Integers, FiniteSets

CONSTANTS
  Window,       \* memory_window
  MaxTurn,      \* bound: messages a turn adds
  MaxMessages,  \* bound: messages of the session
  MaxRestarts      \* bound: kills of the gateway

ASSUME WindowHasHalf == Window \in Nat \ {0, 1}
ASSUME SessionBounds == {MaxTurn, MaxMessages} \subseteq Nat \ {0} /\ MaxRestarts \in Nat

Keep == Window \div 2

VARIABLES
  session,        \* messages, last_consolidated
  disk,           \* the same in the file of the session
  turn,           \* the running call of _process_message()
  background,     \* the running call of _consolidate_and_unlock()
  lock,           \* who holds the lock of the session
  consolidating,  \* the session is in _consolidating
  archived,       \* messages of the session written to HISTORY.md
  restarts,
  repeated        \* ghost: one was written a second time

store == <<session, disk>>
locks == <<lock, consolidating>>
history == <<archived, repeated>>
sessionVars == <<session, disk, turn, background, lock, consolidating, archived, restarts, repeated>>

Empty == [messages |-> 0, last |-> 0]
NoCall == [pc |-> "none", from |-> 0, upto |-> 0]
Call(pc, from, upto) == [pc |-> pc, from |-> from, upto |-> upto]

SessionInit ==
  /\ session = Empty
  /\ disk = Empty
  /\ turn = NoCall
  /\ background = NoCall
  /\ lock = "free"
  /\ consolidating = FALSE
  /\ archived = {}
  /\ restarts = 0
  /\ repeated = FALSE

Unconsolidated == session.messages - session.last

(***************************************************************************)
(* Turns.                                                                  *)
(***************************************************************************)
\* A message of a user: past the window, it starts a consolidation of all but
\* the newest messages, unless one is on its way.
MessageArrives ==
  /\ turn = NoCall
  /\ turn' = Call("chat", 0, 0)
  /\ IF Unconsolidated >= Window /\ ~consolidating
       THEN /\ background' = Call("model", session.last + 1, session.messages - Keep)
            /\ consolidating' = TRUE
            /\ lock' = "background"
       ELSE UNCHANGED <<background, locks>>
  /\ UNCHANGED <<store, history, restarts>>

\* The answer of a subagent is a turn of the session as well.
SystemMessageArrives ==
  /\ turn = NoCall
  /\ turn' = Call("chat", 0, 0)
  /\ UNCHANGED <<store, background, locks, history, restarts>>

\* _save_turn, save; a turn that raises adds nothing.
TurnEnds ==
  /\ turn.pc = "chat"
  /\ turn' = NoCall
  /\ \/ \E n \in 1..MaxTurn :
          /\ session.messages + n <= MaxMessages
          /\ session' = [session EXCEPT !.messages = @ + n]
          /\ disk' = session'
     \/ UNCHANGED store
  /\ UNCHANGED <<background, locks, history, restarts>>

(***************************************************************************)
(* Consolidation.                                                          *)
(***************************************************************************)
Write(call) ==
  /\ archived' = archived \cup (call.from .. call.upto)
  /\ repeated' = (repeated \/ \E i \in call.from .. call.upto : i \in archived)

\* The lock is free before the one who waits for it goes on; the mark in
\* _consolidating is gone, also the one that the waiting /new has set.
BackgroundEnds_Bug ==
  /\ background.pc = "model"
  /\ background' = NoCall
  /\ \/ /\ Write(background)
        /\ session' = [session EXCEPT !.last = session.messages - Keep]
        /\ lock' = "free"
     \/ UNCHANGED <<archived, repeated, session, lock>>
  /\ consolidating' = FALSE
  /\ UNCHANGED <<disk, turn, restarts>>
BackgroundEnds ==
  /\ background.pc = "model"
  /\ background' = NoCall
  /\ \/ /\ Write(background)
        /\ session' = [session EXCEPT !.last = session.messages - Keep]
     \/ UNCHANGED <<archived, repeated, session>>
  /\ lock' = "free"
  /\ consolidating' = FALSE
  /\ UNCHANGED <<disk, turn, restarts>>

(***************************************************************************)
(* The command /new: archive what is not consolidated, then clear.         *)
(***************************************************************************)
NewArrives_Bug ==
  /\ turn = NoCall
  /\ turn' = Call("archive", session.last + 1, session.messages)
  /\ consolidating' = TRUE
  /\ UNCHANGED <<store, background, lock, history, restarts>>
NewArrives ==
  /\ turn = NoCall
  /\ turn' = Call("wait", 0, 0)
  /\ consolidating' = TRUE
  /\ UNCHANGED <<store, background, lock, history, restarts>>

NewHasLock ==
  /\ turn.pc = "wait"
  /\ lock = "free"
  /\ lock' = "new"
  /\ turn' = Call("archive", session.last + 1, session.messages)
  /\ UNCHANGED <<store, background, consolidating, history, restarts>>

\* The snapshot is written, unless it is empty, and the session cleared; after a
\* failure it stays.
Cleared ==
  /\ repeated' = (repeated \/ \E i \in turn.from .. turn.upto : i \in archived)
  /\ archived' = {}
  /\ session' = Empty
  /\ disk' = Empty

NewEnds ==
  /\ turn.pc = "archive"
  /\ turn' = NoCall
  /\ lock' = IF lock = "new" THEN "free" ELSE lock
  /\ consolidating' = FALSE
  /\ \/ Cleared
     \/ turn.from <= turn.upto /\ UNCHANGED <<store, history>>
  /\ UNCHANGED <<background, restarts>>

(***************************************************************************)
(* A kill takes what the file does not have: the move of last_consolidated *)
(* since the last turn.                                                    *)
(***************************************************************************)
Restarted ==
  /\ restarts < MaxRestarts
  /\ restarts' = restarts + 1
  /\ session' = disk
  /\ turn' = NoCall
  /\ background' = NoCall
  /\ lock' = "free"
  /\ consolidating' = FALSE
  /\ UNCHANGED <<disk, history>>

-----------------------------------------------------------------------------
SessionNext ==
  \/ MessageArrives
  \/ SystemMessageArrives
  \/ TurnEnds
  \/ BackgroundEnds
  \/ NewArrives
  \/ NewHasLock
  \/ NewEnds
  \/ Restarted

\* Calls of the model end, and a lock that is free is taken.
SessionFairness ==
  /\ WF_sessionVars(TurnEnds)
  /\ WF_sessionVars(BackgroundEnds)
  /\ WF_sessionVars(NewHasLock)
  /\ WF_sessionVars(NewEnds)

SessionSpec == SessionInit /\ [][SessionNext]_sessionVars /\ SessionFairness

-----------------------------------------------------------------------------
\* No message is written to HISTORY.md twice, though the background and /new both
\* write from last_consolidated on, unless the process was killed before the file
\* of the session had the place.
ArchivedOnce == repeated => restarts > 0

\* Whoever asks for a new session while a consolidation is on its way gets an
\* answer, whether that succeeds or fails.
NewGoesOn == turn.pc = "wait" ~> turn = NoCall
=============================================================================
