------------------------------- MODULE Vpopen -------------------------------
(***************************************************************************)
(* ms_vpopen and ms_vpclose of libs/msstd/thread_ex.c.  A child inherits   *)
(* every descriptor its parent has at vfork, and closes only the end of    *)
(* its own pipe that it does not use.  A program that reads ends at the    *)
(* end of its input, which it sees when nobody holds the other end of its  *)
(* pipe; one that writes ends by itself.  One identity stands for a pipe,  *)
(* its stream and its child.                                               *)
(***************************************************************************)
EXTENDS Integers, Sequences, SequencesExt

CONSTANTS Client,  \* threads
          Stream,  \* bound: as many as are ever open together
          Fd,      \* descriptors that a stream may get
          Parent, NoChild

VARIABLES childpid,  \* <<>> before calloc, then the child by descriptor
          state,     \* of each stream: "free", "pipe", "open" or "closed"
          running,   \* the children that run
          type,      \* "r" or "w"
          fileno,    \* the descriptor of each stream
          writers,   \* who holds the writing end of each pipe
          streams,   \* those that each thread has open, in order
          at, cur,   \* where each thread is, and with which stream
          overlap    \* not in the code: did a ms_vpopen ever overlap another call?

popenVars == <<childpid, state, running, type, fileno, writers, streams, at, cur, overlap>>

PopenInit ==
  /\ childpid = <<>> /\ running = {} /\ overlap = FALSE
  /\ state   = [s \in Stream |-> "free"]
  /\ type    = [s \in Stream |-> "r"]
  /\ fileno  = [s \in Stream |-> 0]
  /\ writers = [s \in Stream |-> {}]
  /\ streams = [c \in Client |-> <<>>]
  /\ at      = [c \in Client |-> "idle"]
  /\ cur     = [c \in Client |-> CHOOSE s \in Stream : TRUE]

Goes(c, where) == at' = [at EXCEPT ![c] = where]

Busy(c) == \E d \in Client \ {c} : at[d] # "idle"
Opening(c) == \E d \in Client \ {c} : at[d] \in {"calloc", "pipe", "fork", "store"}

-----------------------------------------------------------------------------
(* ms_vpopen *)

Open(c) ==
  /\ at[c] = "idle"
  /\ Goes(c, IF childpid = <<>> THEN "calloc" ELSE "pipe")
  /\ overlap' = (overlap \/ Busy(c))
  /\ UNCHANGED <<childpid, state, running, type, fileno, writers, streams, cur>>

\* Another thread may have allocated the table meanwhile, and used it.
Calloc(c) ==
  /\ at[c] = "calloc" /\ Goes(c, "pipe")
  /\ childpid' = [f \in Fd |-> NoChild]
  /\ UNCHANGED <<state, running, type, fileno, writers, streams, cur, overlap>>

CallocFails(c) ==
  /\ at[c] = "calloc" /\ Goes(c, "idle")
  /\ UNCHANGED <<childpid, state, running, type, fileno, writers, streams, cur, overlap>>

Used == {fileno[s] : s \in {s \in Stream : state[s] \in {"pipe", "open"}}}

Pipe(c) ==
  /\ at[c] = "pipe" /\ Goes(c, "fork")
  /\ \E s \in Stream, k \in {"r", "w"}, f \in Fd \ Used :
       /\ state[s] = "free" /\ state' = [state EXCEPT ![s] = "pipe"]
       /\ cur'     = [cur EXCEPT ![c] = s]
       /\ type'    = [type EXCEPT ![s] = k]
       /\ fileno'  = [fileno EXCEPT ![s] = f]
       /\ writers' = [writers EXCEPT ![s] = {Parent}]
  /\ UNCHANGED <<childpid, running, streams, overlap>>

PipeFails(c) ==
  /\ at[c] = "pipe" /\ Goes(c, "idle")
  /\ UNCHANGED <<childpid, state, running, type, fileno, writers, streams, cur, overlap>>

\* The child of s holds what the parent holds.
Inherits(s) == [q \in Stream |-> writers[q] \cup (IF Parent \in writers[q] THEN {s} ELSE {})]

\* A mistake, used by no specification: a child that reads keeps the end it does
\* not use.
VforkKeepsEnd(c) ==
  LET s == cur[c]
  IN  /\ at[c] = "fork" /\ Goes(c, "store")
      /\ running' = running \cup {s}
      /\ writers' = Inherits(s)
      /\ UNCHANGED <<childpid, state, type, fileno, streams, cur, overlap>>

Vfork(c) ==
  LET s == cur[c]
  IN  /\ at[c] = "fork" /\ Goes(c, "store")
      /\ running' = running \cup {s}
      /\ writers' = IF type[s] = "w" THEN [Inherits(s) EXCEPT ![s] = @ \ {s}] ELSE Inherits(s)
      /\ UNCHANGED <<childpid, state, type, fileno, streams, cur, overlap>>

VforkFails(c) ==
  LET s == cur[c]
  IN  /\ at[c] = "fork" /\ Goes(c, "idle")
      /\ writers' = [writers EXCEPT ![s] = @ \ {Parent}]
      /\ state'   = [state EXCEPT ![s] = "free"]
      /\ UNCHANGED <<childpid, running, type, fileno, streams, cur, overlap>>

Store(c) ==
  LET s == cur[c]
  IN  /\ at[c] = "store" /\ Goes(c, "idle")
      /\ childpid' = [childpid EXCEPT ![fileno[s]] = s]
      /\ writers'  = IF type[s] = "r" THEN [writers EXCEPT ![s] = @ \ {Parent}] ELSE writers
      /\ state'    = [state EXCEPT ![s] = "open"]
      /\ streams'  = [streams EXCEPT ![c] = Append(@, s)]
      /\ UNCHANGED <<running, type, fileno, cur, overlap>>

-----------------------------------------------------------------------------
(* ms_vpclose, of the stream that the thread opened last *)

\* The stream and its child stay when the table knows no child.
Close(c) ==
  /\ at[c] = "idle" /\ streams[c] # <<>>
  /\ LET s == Last(streams[c])
     IN  /\ streams' = [streams EXCEPT ![c] = Front(@)]
         /\ cur' = [cur EXCEPT ![c] = s]
         /\ IF childpid[fileno[s]] = NoChild
            THEN UNCHANGED <<at, writers, state>>
            ELSE /\ Goes(c, "wait")
                 /\ writers' = [writers EXCEPT ![s] = @ \ {Parent}]
                 /\ state'   = [state EXCEPT ![s] = "closed"]
  /\ overlap' = (overlap \/ Opening(c))
  /\ UNCHANGED <<childpid, running, type, fileno>>

Wait(c) ==
  /\ at[c] = "wait" /\ cur[c] \notin running /\ Goes(c, "clear")
  /\ UNCHANGED <<childpid, state, running, type, fileno, writers, streams, cur, overlap>>

\* By now the descriptor may belong to a new stream.
Clear(c) ==
  /\ at[c] = "clear" /\ Goes(c, "idle")
  /\ childpid' = [childpid EXCEPT ![fileno[cur[c]]] = NoChild]
  /\ state'    = [state EXCEPT ![cur[c]] = "free"]
  /\ UNCHANGED <<running, type, fileno, writers, streams, cur, overlap>>

-----------------------------------------------------------------------------
(* The children *)

ChildEnds(s) ==
  /\ s \in running /\ (type[s] = "w" => writers[s] = {})
  /\ running' = running \ {s}
  /\ writers' = [q \in Stream |-> writers[q] \ {s}]
  /\ UNCHANGED <<childpid, state, type, fileno, streams, at, cur, overlap>>

-----------------------------------------------------------------------------
\* What a thread does once it has begun a call or has a stream.
Goon(c) ==
  \/ Calloc(c) \/ Pipe(c) \/ PipeFails(c) \/ Vfork(c) \/ Store(c)
  \/ Close(c) \/ Wait(c) \/ Clear(c)

PopenNext ==
  \/ \E c \in Client : Open(c) \/ Goon(c) \/ CallocFails(c) \/ VforkFails(c)
  \/ \E s \in Stream : ChildEnds(s)

PopenSpec == PopenInit /\ [][PopenNext]_popenVars

\* Threads go on and close what they opened, and children end when they can.
PopenFairness ==
  /\ \A c \in Client : WF_popenVars(Goon(c))
  /\ \A s \in Stream : WF_popenVars(ChildEnds(s))

(* Once threads stop opening streams every stream that is open is closed and its
   child waited for, whichever pipe ends later children inherited, if each
   thread closes the stream it opened last and no ms_vpopen overlapped another
   call (thread_ex.c:304, 352-367). *)
ChildrenReaped ==
  PopenFairness /\ [](~overlap) /\ <>[][\A c \in Client : ~Open(c)]_popenVars =>
    \A s \in Stream : (state[s] = "open") ~> (state[s] = "free")
=============================================================================
