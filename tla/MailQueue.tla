----------------------------- MODULE MailQueue -----------------------------
(***************************************************************************)
(* libs/msdb/emaildb.c: the table mailtosend.  Each call is one SQL        *)
(* statement, which SQLite makes atomic, and is one step here; the lock    *)
(* around it only keeps statements from meeting a busy database.  Senders  *)
(* read a batch of waiting mails, send one after the other and write back  *)
(* what became of each, in calls of their own: the program that does so is *)
(* not in the repository and is external, as is the meaning of a status    *)
(* other than 0.                                                           *)
(***************************************************************************)
EXTENDS Integers, Sequences, FiniteSets, FiniteSetsExt, Functions

CONSTANTS Sender, Mail,
          Capacity,   \* mails read in one call
          MaxRetry,   \* attempts of a sender before it gives a mail up
          MaxId,      \* bound: ids given out
          MaxFaults   \* bound: calls that fail and senders that die

ASSUME MailConstantsOK ==
  /\ Capacity \in Nat \ {0} /\ MaxRetry \in Nat \ {0}
  /\ MaxId \in Nat /\ MaxFaults \in Nat

Id == 1 .. MaxId
Waiting == 0    \* the status that read_mailtosend asks for
Sent == 1       \* those of the senders
GivenUp == 2

VARIABLES mails,   \* the rows: mail, status and retry by id
          top,     \* the highest id ever given out
          unborn,  \* mails nobody has added yet
          batch,   \* what each sender has read and not yet written back
          stage,   \* where each sender is: "idle", "send" or "update"
          went,    \* did the mail it is at go out?
          sends,   \* not in the code: how often each mail went out
          excused, \* not in the code: mails that may go out again, and why
                   \* is told where they are added
          reused,  \* not in the code: mails that got an id a sender still held
          faults

mailVars == <<mails, top, unborn, batch, stage, went, sends, excused, reused, faults>>

Row(m, st, r) == [mail |-> m, status |-> st, retry |-> r]

MailInit ==
  /\ mails  = <<>> /\ top = 0
  /\ unborn = Mail
  /\ batch  = [s \in Sender |-> <<>>]
  /\ stage  = [s \in Sender |-> "idle"]
  /\ went   = [s \in Sender |-> FALSE]
  /\ sends  = [m \in Mail |-> 0]
  /\ excused = {} /\ reused = {} /\ faults = 0

Present == DOMAIN mails
Holds(s, i) == \E j \in DOMAIN batch[s] : batch[s][j].id = i

Fault == faults < MaxFaults /\ faults' = faults + 1

-----------------------------------------------------------------------------
(* add_mailtosend, remove_mailtosend *)

\* mailid NULL: SQLite gives the id after the highest of the rows, or of all
\* there ever were, as the table was declared.
AddMail(m) ==
  /\ m \in unborn /\ unborn' = unborn \ {m}
  /\ \E i \in {Max({0} \cup Present) + 1, top + 1} \cap Id :
       /\ mails' = [j \in Present \cup {i} |-> IF j = i THEN Row(m, Waiting, 0) ELSE mails[j]]
       /\ top' = Max({top, i})
       /\ reused' = IF \E s \in Sender : Holds(s, i) THEN reused \cup {m} ELSE reused
  /\ UNCHANGED <<batch, stage, went, sends, excused, faults>>

\* No connection, or a statement cut off at 2048 bytes: the caller is told 0 of
\* the second.
AddMailFails(m) ==
  /\ m \in unborn /\ unborn' = unborn \ {m} /\ Fault
  /\ UNCHANGED <<mails, top, batch, stage, went, sends, excused, reused>>

Compare(c, a, b) ==
  CASE c = 1 -> a > b [] c = -1 -> a < b [] OTHER -> a = b

\* By mailid, status, retry, or all.  The texts compared for nDeleteType 5 are
\* left out; nDeleType 2 executes an empty statement.
Doomed(type, c, x) ==
  {i \in Present : CASE type = 1  -> Compare(c, i, x)
                     [] type = 3  -> Compare(c, mails[i].status, x)
                     [] type = 4  -> Compare(c, mails[i].retry, x)
                     [] type = -1 -> TRUE
                     [] OTHER     -> FALSE}

RemoveMails(type, c, x) ==
  /\ Doomed(type, c, x) # {}
  /\ mails' = [i \in Present \ Doomed(type, c, x) |-> mails[i]]
  /\ UNCHANGED <<top, unborn, batch, stage, went, sends, excused, reused, faults>>

-----------------------------------------------------------------------------
(* read_mailtosend, update_mailtosend *)

\* A mistake, used by no specification: every row is read.
AllIds == Present

WaitingIds == {i \in Present : mails[i].status = Waiting}
Read(i) == [id |-> i, mail |-> mails[i].mail, retry |-> mails[i].retry]

\* As many waiting rows as there are and fit, in the order of the table, which
\* the query does not ask for: any order.
Batches ==
  {b \in [1 .. Min({Capacity, Cardinality(WaitingIds)}) -> WaitingIds] : IsInjective(b)}

\* A mail that another sender has read and not written back is read again.
ReadMails(s) ==
  /\ stage[s] = "idle" /\ WaitingIds # {}
  /\ \E b \in Batches :
       /\ batch' = [batch EXCEPT ![s] = [n \in DOMAIN b |-> Read(b[n])]]
       /\ excused' = excused \cup {mails[i].mail : i \in {i \in Range(b) :
                                     \E u \in Sender \ {s} : Holds(u, i)}}
  /\ stage' = [stage EXCEPT ![s] = "send"]
  /\ UNCHANGED <<mails, top, unborn, went, sends, reused, faults>>

SendMail(s) ==
  /\ stage[s] = "send"
  /\ \E ok \in BOOLEAN :
       /\ went'  = [went EXCEPT ![s] = ok]
       /\ sends' = IF ok THEN [sends EXCEPT ![Head(batch[s]).mail] = @ + 1] ELSE sends
  /\ stage' = [stage EXCEPT ![s] = "update"]
  /\ UNCHANGED <<mails, top, unborn, batch, excused, reused, faults>>

\* A mistake, used by no specification: the end of the batch is not seen.
AdvancePastEnd(s) ==
  /\ batch' = [batch EXCEPT ![s] = Tail(@)]
  /\ stage' = [stage EXCEPT ![s] = "send"]

\* On to the next mail of the batch.
Advance(s) ==
  /\ batch' = [batch EXCEPT ![s] = Tail(@)]
  /\ stage' = [stage EXCEPT ![s] = IF Len(batch[s]) > 1 THEN "send" ELSE "idle"]

NewStatus(s) == IF went[s] THEN Sent
                ELSE IF Head(batch[s]).retry + 1 >= MaxRetry THEN GivenUp ELSE Waiting
NewRetry(s) == Head(batch[s]).retry + (IF went[s] THEN 0 ELSE 1)

\* Mistakes, used by no specification: the row after the one that was read is
\* updated; the count of attempts is left as it was.
UpdateNeighbour(s) ==
  /\ stage[s] = "update" /\ Advance(s)
  /\ LET i == Head(batch[s]).id + 1
     IN  mails' = IF i \in Present
                  THEN [mails EXCEPT ![i] = Row(@.mail, NewStatus(s), NewRetry(s))]
                  ELSE mails
  /\ UNCHANGED <<top, unborn, went, sends, excused, reused, faults>>
UpdateStatusOnly(s) ==
  /\ stage[s] = "update" /\ Advance(s)
  /\ LET i == Head(batch[s]).id
     IN  mails' = IF i \in Present
                  THEN [mails EXCEPT ![i] = Row(@.mail, NewStatus(s), @.retry)]
                  ELSE mails
  /\ UNCHANGED <<top, unborn, went, sends, excused, reused, faults>>

\* Whatever the row is now, and if it is still there.
UpdateMail(s) ==
  /\ stage[s] = "update" /\ Advance(s)
  /\ LET i == Head(batch[s]).id
     IN  mails' = IF i \in Present
                  THEN [mails EXCEPT ![i] = Row(@.mail, NewStatus(s), NewRetry(s))]
                  ELSE mails
  /\ UNCHANGED <<top, unborn, went, sends, excused, reused, faults>>

\* A mail that went out and could not be written back still waits.
WentUnwritten(s) ==
  excused' = IF stage[s] = "update" /\ went[s] THEN excused \cup {Head(batch[s]).mail} ELSE excused

UpdateMailFails(s) ==
  /\ stage[s] = "update" /\ Fault /\ Advance(s)
  /\ WentUnwritten(s)
  /\ UNCHANGED <<mails, top, unborn, went, sends, reused>>

SenderDies(s) ==
  /\ stage[s] # "idle" /\ Fault
  /\ WentUnwritten(s)
  /\ batch' = [batch EXCEPT ![s] = <<>>]
  /\ stage' = [stage EXCEPT ![s] = "idle"]
  /\ UNCHANGED <<mails, top, unborn, went, sends, reused>>

-----------------------------------------------------------------------------
SenderStep(s) == ReadMails(s) \/ SendMail(s) \/ UpdateMail(s)

MailNext ==
  \/ \E m \in Mail : AddMail(m) \/ AddMailFails(m)
  \/ \E s \in Sender : SenderStep(s) \/ UpdateMailFails(s) \/ SenderDies(s)
  \/ \E type \in {1, 3, 4, -1}, c \in {-1, 0, 1}, x \in 0 .. 2 : RemoveMails(type, c, x)

MailSpec == MailInit /\ [][MailNext]_mailVars

\* Senders keep working: each mail they have read is sent and written back.
MailFairness == \A s \in Sender : WF_mailVars(SenderStep(s))

-----------------------------------------------------------------------------
(* The properties. *)

\* The variables stay in their sets, and a sender has a mail when it sends.
Copy == [id : Id, mail : Mail, retry : Nat]
MailTypeOK ==
  /\ Present \subseteq Id
  /\ \A i \in Present : mails[i] \in [mail : Mail, status : {Waiting, Sent, GivenUp}, retry : Nat]
  /\ top \in Id \cup {0} /\ unborn \subseteq Mail
  /\ batch \in [Sender -> Seq(Copy)]
  /\ stage \in [Sender -> {"idle", "send", "update"}]
  /\ went \in [Sender -> BOOLEAN]
  /\ sends \in [Mail -> Nat]
  /\ excused \subseteq Mail /\ reused \subseteq Mail
  /\ faults \in 0 .. MaxFaults
  /\ \A s \in Sender : stage[s] # "idle" => batch[s] # <<>>

(* A mail goes out twice only for one of these reasons: two senders had read
   it together, it went out and was not written back, or an id was given out
   again while a sender held it (emaildb.c:84, 115-127). *)
SentAgainForAReason ==
  \A m \in Mail : sends[m] > 1 => m \in excused \cup reused

(* A row that says a mail was sent is right, unless the row got its id while a
   sender still held the id from an earlier mail (emaildb.c:122, 137). *)
MarkedWasSent ==
  \A i \in Present : mails[i].status = Sent => sends[mails[i].mail] > 0 \/ mails[i].mail \in reused

\* No mail waits for ever: it is sent, given up or removed, although a failing
\* one stands before it in each batch and a sender may write back a stale count
\* of attempts (emaildb.c:84, 122).
NoMailWaitsForEver ==
  MailFairness => \A m \in Mail :
    []<>~(\E i \in Present : mails[i].mail = m /\ mails[i].status = Waiting)
=============================================================================
