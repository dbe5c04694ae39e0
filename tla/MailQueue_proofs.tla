-------------------------- MODULE MailQueue_proofs --------------------------
(***************************************************************************)
(* MailQueue for any number of senders and mails, any batch and any number *)
(* of attempts: its types, that a row marked as sent is right, and that a  *)
(* mail goes out once unless one of the listed reasons applies to it.      *)
(***************************************************************************)
EXTENDS MailQueue, FiniteSetTheorems, SequenceTheorems, TLAPS

USE MailConstantsOK

-----------------------------------------------------------------------------
(* Batches *)

LEMMA TailOfBatch ==
  ASSUME NEW q \in Seq(Copy), q # <<>>
  PROVE  /\ 1 \in DOMAIN q /\ Head(q) = q[1] /\ q[1] \in Copy
         /\ Tail(q) \in Seq(Copy) /\ Len(Tail(q)) = Len(q) - 1
         /\ Len(q) \in Nat \ {0}
         /\ \A j \in DOMAIN Tail(q) :
              j \in Nat \ {0} /\ j + 1 \in DOMAIN q /\ Tail(q)[j] = q[j + 1]
         /\ \A j \in DOMAIN q : j # 1 => j - 1 \in DOMAIN Tail(q)
  OBVIOUS

\* What a sender reads is not empty.
LEMMA BatchRead ==
  ASSUME MailTypeOK, WaitingIds # {}, NEW b \in Batches
  PROVE  /\ DOMAIN b = 1 .. Len(b) /\ Len(b) \in Nat \ {0}
         /\ \A n \in DOMAIN b : b[n] \in WaitingIds
         /\ IsInjective(b)
         /\ b \in Seq(WaitingIds)
<1> DEFINE n == Cardinality(WaitingIds)
           k == Min({Capacity, n})
<1>1. IsFiniteSet(WaitingIds)
  <2>1. WaitingIds \subseteq 1 .. MaxId
    BY DEF WaitingIds, MailTypeOK, Id
  <2>2. IsFiniteSet(1 .. MaxId)
    BY FS_Interval DEF MailConstantsOK
  <2> QED
    BY <2>1, <2>2, FS_Subset
<1>2. n \in Nat \ {0}
  BY <1>1, FS_CardinalityType, FS_EmptySet
<1>3. k \in Nat \ {0}
  <2>1. Capacity \in Nat \ {0}
    BY DEF MailConstantsOK
  <2> HIDE DEF n
  <2>2. \E x \in {Capacity, n} : \A y \in {Capacity, n} : x =< y
    BY <1>2, <2>1
  <2>3. k \in {Capacity, n}
    BY <2>2 DEF Min
  <2> QED
    BY <1>2, <2>1, <2>3
<1>4. b \in [1 .. k -> WaitingIds] /\ IsInjective(b)
  BY DEF Batches
<1> HIDE DEF k
<1>5. b \in Seq(WaitingIds) /\ Len(b) = k
  BY <1>3, <1>4, SeqDef
<1> QED
  BY <1>3, <1>4, <1>5

\* The copies a sender makes of the rows.
Copies(b) == [n \in DOMAIN b |-> Read(b[n])]

LEMMA CopiesRead ==
  ASSUME MailTypeOK, WaitingIds # {}, NEW b \in Batches
  PROVE  Copies(b) \in Seq(Copy) /\ Copies(b) # <<>> /\ DOMAIN Copies(b) = DOMAIN b
<1>1. /\ DOMAIN b = 1 .. Len(b) /\ Len(b) \in Nat \ {0}
      /\ \A n \in DOMAIN b : b[n] \in WaitingIds
  BY BatchRead
<1>2. \A i \in WaitingIds : Read(i) \in Copy
  BY DEF WaitingIds, Read, Copy, MailTypeOK
<1>3. Copies(b) \in [1 .. Len(b) -> Copy]
  BY <1>1, <1>2 DEF Copies
<1>4. Copies(b) \in Seq(Copy) /\ Len(Copies(b)) = Len(b)
  BY <1>1, <1>3, SeqDef
<1> QED
  BY <1>1, <1>4, EmptySeq DEF Copies

-----------------------------------------------------------------------------
(* Types *)

LEMMA MailTypeInit == MailInit => MailTypeOK
<1>1. ASSUME MailInit PROVE Present = {}
  BY <1>1 DEF MailInit, Present
<1>2. <<>> \in Seq(Copy)
  OBVIOUS
<1> QED
  BY <1>1, <1>2 DEF MailInit, MailTypeOK, MailConstantsOK

LEMMA MaxOfTwo ==
  ASSUME NEW a \in Int, NEW b \in Int
  PROVE  Max({a, b}) \in {a, b}
<1>1. \E x \in {a, b} : \A y \in {a, b} : x >= y
  OBVIOUS
<1> QED
  BY <1>1 DEF Max

\* What a sender writes back is a row.
LEMMA WrittenBack ==
  ASSUME MailTypeOK, NEW s \in Sender, stage[s] = "update"
  PROVE  NewStatus(s) \in {Waiting, Sent, GivenUp} /\ NewRetry(s) \in Nat
<1>1. Head(batch[s]) \in Copy
  BY TailOfBatch DEF MailTypeOK
<1>2. Head(batch[s]).retry \in Nat
  BY <1>1 DEF Copy
<1>3. NewRetry(s) \in Nat
  BY <1>2 DEF NewRetry
<1> QED
  BY <1>3 DEF NewStatus

\* The batch and the stage of a sender after its step on to the next mail.
LEMMA AdvanceType ==
  ASSUME MailTypeOK, NEW s \in Sender, stage[s] = "update", Advance(s)
  PROVE  /\ batch' \in [Sender -> Seq(Copy)]
         /\ stage' \in [Sender -> {"idle", "send", "update"}]
         /\ \A u \in Sender : stage'[u] # "idle" => batch'[u] # <<>>
<1>1. batch[s] \in Seq(Copy) /\ batch[s] # <<>>
  BY DEF MailTypeOK
<1>2. Tail(batch[s]) \in Seq(Copy) /\ Len(Tail(batch[s])) = Len(batch[s]) - 1
      /\ Len(batch[s]) \in Nat \ {0}
  BY <1>1, TailOfBatch
<1>3. Len(batch[s]) > 1 => Tail(batch[s]) # <<>>
  BY <1>2, EmptySeq
<1> QED
  BY <1>2, <1>3 DEF Advance, MailTypeOK

LEMMA MailTypeStep == MailTypeOK /\ [MailNext]_mailVars => MailTypeOK'
<1> SUFFICES ASSUME MailTypeOK, [MailNext]_mailVars PROVE MailTypeOK'
  OBVIOUS
<1>1. CASE UNCHANGED mailVars
  BY <1>1 DEF mailVars, MailTypeOK, Present
<1>2. ASSUME NEW m \in Mail, AddMail(m) PROVE MailTypeOK'
  <2> PICK i \in Id :
         /\ mails' = [j \in Present \cup {i} |-> IF j = i THEN Row(m, Waiting, 0) ELSE mails[j]]
         /\ top' = Max({top, i})
         /\ reused' = IF \E s \in Sender : Holds(s, i) THEN reused \cup {m} ELSE reused
    BY <1>2 DEF AddMail
  <2>1. top' \in Id \cup {0}
    <3>1. top \in Int /\ i \in Int
      BY DEF MailTypeOK, Id, MailConstantsOK
    <3> QED
      BY <3>1, MaxOfTwo DEF MailTypeOK
  <2>2. Present' = Present \cup {i}
    BY DEF Present
  <2>3. \A j \in Present' : mails'[j] \in [mail : Mail, status : {Waiting, Sent, GivenUp}, retry : Nat]
    BY <2>2 DEF MailTypeOK, Row
  <2> QED
    BY <1>2, <2>1, <2>2, <2>3 DEF AddMail, MailTypeOK
<1>3. ASSUME NEW m \in Mail, AddMailFails(m) PROVE MailTypeOK'
  BY <1>3 DEF AddMailFails, Fault, MailTypeOK, Present, MailConstantsOK
<1>4. ASSUME NEW s \in Sender, ReadMails(s) PROVE MailTypeOK'
  <2> PICK b \in Batches :
         /\ batch' = [batch EXCEPT ![s] = Copies(b)]
         /\ excused' = excused \cup {mails[i].mail : i \in {i \in Range(b) :
                                       \E u \in Sender \ {s} : Holds(u, i)}}
    BY <1>4 DEF ReadMails, Copies
  <2>1. Copies(b) \in Seq(Copy) /\ Copies(b) # <<>>
    BY <1>4, CopiesRead DEF ReadMails
  <2>2. Range(b) \subseteq Present
    <3>1. \A n \in DOMAIN b : b[n] \in WaitingIds
      BY <1>4, BatchRead DEF ReadMails
    <3> QED
      BY <3>1 DEF Range, WaitingIds
  <2>3. \A i \in Present : mails[i].mail \in Mail
    BY DEF MailTypeOK
  <2>4. excused' \subseteq Mail
    BY <2>2, <2>3 DEF MailTypeOK
  <2> QED
    BY <1>4, <2>1, <2>4 DEF ReadMails, MailTypeOK, Present
<1>5. ASSUME NEW s \in Sender, SendMail(s) PROVE MailTypeOK'
  <2>1. batch[s] \in Seq(Copy) /\ batch[s] # <<>>
    BY <1>5 DEF SendMail, MailTypeOK
  <2>2. Head(batch[s]).mail \in Mail
    BY <2>1, TailOfBatch DEF Copy
  <2>3. sends' \in [Mail -> Nat]
    BY <1>5, <2>2 DEF SendMail, MailTypeOK
  <2> QED
    BY <1>5, <2>1, <2>3 DEF SendMail, MailTypeOK, Present
<1>6. ASSUME NEW s \in Sender, UpdateMail(s) PROVE MailTypeOK'
  <2>1. Present' = Present
    BY <1>6 DEF UpdateMail, Present
  <2>2. \A j \in Present : mails'[j] \in [mail : Mail, status : {Waiting, Sent, GivenUp}, retry : Nat]
    <3>1. NewStatus(s) \in {Waiting, Sent, GivenUp} /\ NewRetry(s) \in Nat
      BY <1>6, WrittenBack DEF UpdateMail
    <3> QED
      BY <1>6, <3>1 DEF UpdateMail, MailTypeOK, Present, Row
  <2> QED
    BY <1>6, <2>1, <2>2, AdvanceType DEF UpdateMail, MailTypeOK
<1>7. ASSUME NEW s \in Sender, UpdateMailFails(s) PROVE MailTypeOK'
  <2>1. batch[s] \in Seq(Copy) /\ batch[s] # <<>>
    BY <1>7 DEF UpdateMailFails, MailTypeOK
  <2>2. Head(batch[s]).mail \in Mail
    BY <2>1, TailOfBatch DEF Copy
  <2>3. excused' \subseteq Mail
    BY <1>7, <2>2 DEF UpdateMailFails, WentUnwritten, MailTypeOK
  <2> QED
    BY <1>7, <2>3, AdvanceType DEF UpdateMailFails, Fault, MailTypeOK, Present, MailConstantsOK
<1>8. ASSUME NEW s \in Sender, SenderDies(s) PROVE MailTypeOK'
  <2>1. batch[s] \in Seq(Copy) /\ batch[s] # <<>>
    BY <1>8 DEF SenderDies, MailTypeOK
  <2>2. Head(batch[s]).mail \in Mail
    BY <2>1, TailOfBatch DEF Copy
  <2>3. excused' \subseteq Mail
    BY <1>8, <2>2 DEF SenderDies, WentUnwritten, MailTypeOK
  <2>4. <<>> \in Seq(Copy)
    OBVIOUS
  <2> QED
    BY <1>8, <2>3, <2>4 DEF SenderDies, Fault, MailTypeOK, Present, MailConstantsOK
<1>9. ASSUME NEW type \in {1, 3, 4, -1}, NEW c \in {-1, 0, 1}, NEW x \in 0 .. 2,
             RemoveMails(type, c, x)
      PROVE  MailTypeOK'
  <2>1. Present' \subseteq Present /\ \A i \in Present' : mails'[i] = mails[i]
    BY <1>9 DEF RemoveMails, Present
  <2> QED
    BY <1>9, <2>1 DEF RemoveMails, MailTypeOK
<1> QED
  BY <1>1, <1>2, <1>3, <1>4, <1>5, <1>6, <1>7, <1>8, <1>9 DEF MailNext, SenderStep

\* The variables of MailQueue stay in their sets and a sender that sends has a
\* mail to send (emaildb.c:75-179).
THEOREM MailTypeCorrect == MailSpec => []MailTypeOK
  BY MailTypeInit, MailTypeStep, PTL DEF MailSpec

-----------------------------------------------------------------------------
(* What a step does to the batches *)

\* The next mail of s: its other copies move up.
LEMMA AdvanceCopies ==
  ASSUME MailTypeOK, NEW s \in Sender, stage[s] = "update", Advance(s)
  PROVE  /\ \A u \in Sender \ {s} : batch'[u] = batch[u] /\ stage'[u] = stage[u]
         /\ 1 \in DOMAIN batch[s] /\ Head(batch[s]) = batch[s][1]
         /\ \A j \in DOMAIN batch'[s] :
              /\ j \in Nat \ {0} /\ j + 1 \in DOMAIN batch[s]
              /\ batch'[s][j] = batch[s][j + 1]
         /\ \A j \in DOMAIN batch[s] :
              j # 1 => j - 1 \in DOMAIN batch'[s] /\ batch'[s][j - 1] = batch[s][j]
         /\ stage'[s] # "update"
         /\ stage'[s] = "idle" => batch'[s] = <<>>
<1>1. batch[s] \in Seq(Copy) /\ batch[s] # <<>>
  BY DEF MailTypeOK
<1>2. batch'[s] = Tail(batch[s])
  BY DEF Advance, MailTypeOK
<1>3. stage'[s] = IF Len(batch[s]) > 1 THEN "send" ELSE "idle"
  BY DEF Advance, MailTypeOK
<1>4. Len(batch'[s]) = Len(batch[s]) - 1 /\ Len(batch[s]) \in Nat \ {0} /\ batch'[s] \in Seq(Copy)
  BY <1>1, <1>2, TailOfBatch
<1>5. stage'[s] = "idle" => batch'[s] = <<>>
  BY <1>3, <1>4, EmptySeq
<1>6. \A u \in Sender \ {s} : batch'[u] = batch[u] /\ stage'[u] = stage[u]
  BY DEF Advance, MailTypeOK
<1>7. \A j \in DOMAIN batch[s] :
        j # 1 => j - 1 \in DOMAIN batch'[s] /\ batch'[s][j - 1] = batch[s][j]
  BY <1>1, <1>2, TailOfBatch
<1>8. /\ 1 \in DOMAIN batch[s] /\ Head(batch[s]) = batch[s][1]
      /\ \A j \in DOMAIN batch'[s] :
           /\ j \in Nat \ {0} /\ j + 1 \in DOMAIN batch[s]
           /\ batch'[s][j] = batch[s][j + 1]
  BY <1>1, <1>2, TailOfBatch
<1> QED
  BY <1>3, <1>5, <1>6, <1>7, <1>8

\* The copies of rows that s has read.
LEMMA ReadCopies ==
  ASSUME MailTypeOK, NEW s \in Sender, ReadMails(s)
  PROVE  \E b \in Batches :
           /\ IsInjective(b)
           /\ \A u \in Sender \ {s} : batch'[u] = batch[u] /\ stage'[u] = stage[u]
           /\ stage'[s] = "send"
           /\ DOMAIN batch'[s] = DOMAIN b
           /\ \A n \in DOMAIN b :
                /\ b[n] \in WaitingIds
                /\ batch'[s][n].id = b[n] /\ batch'[s][n].mail = mails[b[n]].mail
                /\ \A u \in Sender \ {s} : Holds(u, b[n]) => mails[b[n]].mail \in excused'
           /\ excused \subseteq excused'
<1> PICK b \in Batches :
       /\ batch' = [batch EXCEPT ![s] = Copies(b)]
       /\ excused' = excused \cup {mails[i].mail : i \in {i \in Range(b) :
                                     \E u \in Sender \ {s} : Holds(u, i)}}
  BY DEF ReadMails, Copies
<1>1. IsInjective(b) /\ \A n \in DOMAIN b : b[n] \in WaitingIds
  BY BatchRead DEF ReadMails
<1>2. batch'[s] = Copies(b) /\ \A u \in Sender \ {s} : batch'[u] = batch[u]
  BY DEF MailTypeOK
<1>3. stage'[s] = "send" /\ \A u \in Sender \ {s} : stage'[u] = stage[u]
  BY DEF ReadMails, MailTypeOK
<1>4. DOMAIN Copies(b) = DOMAIN b /\ \A n \in DOMAIN b : Copies(b)[n] = Read(b[n])
  BY DEF Copies
<1>5. \A n \in DOMAIN b : \A u \in Sender \ {s} :
        Holds(u, b[n]) => mails[b[n]].mail \in excused'
  <2>1. \A n \in DOMAIN b : b[n] \in Range(b)
    BY DEF Range
  <2> QED
    BY <2>1
<1>6. \A n \in DOMAIN b : batch'[s][n].id = b[n] /\ batch'[s][n].mail = mails[b[n]].mail
  BY <1>2, <1>4 DEF Read
<1>7. excused \subseteq excused'
  OBVIOUS
<1> QED
  BY <1>1, <1>2, <1>3, <1>4, <1>5, <1>6, <1>7

-----------------------------------------------------------------------------
(* Rows marked as sent *)

\* The row under the id of a copy is that of the copied mail, unless the id was
\* given to a new mail while the copy was held.
HeldRight ==
  \A s \in Sender : \A j \in DOMAIN batch[s] :
    batch[s][j].id \in Present =>
      \/ mails[batch[s][j].id].mail = batch[s][j].mail
      \/ mails[batch[s][j].id].mail \in reused

\* What a sender says went out did.
WentCounted ==
  \A s \in Sender : stage[s] = "update" /\ went[s] => sends[Head(batch[s]).mail] > 0

MarkInv == HeldRight /\ WentCounted /\ MarkedWasSent

LEMMA MarkInit == MailInit => MarkInv
  BY DEF MailInit, MarkInv, HeldRight, WentCounted, MarkedWasSent, Present

LEMMA MarkAdd ==
  ASSUME MailTypeOK, MarkInv, NEW m \in Mail, AddMail(m)
  PROVE  MarkInv'
<1> PICK i \in Id :
       /\ mails' = [j \in Present \cup {i} |-> IF j = i THEN Row(m, Waiting, 0) ELSE mails[j]]
       /\ reused' = IF \E s \in Sender : Holds(s, i) THEN reused \cup {m} ELSE reused
  BY DEF AddMail
<1>1. Present' = Present \cup {i} /\ batch' = batch /\ stage' = stage /\ went' = went /\ sends' = sends
  BY DEF AddMail, Present
<1>2. mails'[i].mail = m /\ mails'[i].status = Waiting /\ \A j \in Present \ {i} : mails'[j] = mails[j]
  BY DEF Row
<1>3. HeldRight'
  <2> SUFFICES ASSUME NEW s \in Sender, NEW j \in DOMAIN batch[s], batch[s][j].id \in Present'
               PROVE  \/ mails'[batch[s][j].id].mail = batch[s][j].mail
                      \/ mails'[batch[s][j].id].mail \in reused'
    BY <1>1 DEF HeldRight
  <2>1. CASE batch[s][j].id = i
    BY <1>2, <2>1 DEF Holds
  <2>2. CASE batch[s][j].id # i
    BY <1>1, <1>2, <2>2 DEF MarkInv, HeldRight
  <2> QED
    BY <2>1, <2>2
<1>4. WentCounted'
  BY <1>1 DEF MarkInv, WentCounted
<1>5. MarkedWasSent'
  <2>1. Waiting # Sent
    BY DEF Waiting, Sent
  <2>2. reused \subseteq reused'
    OBVIOUS
  <2> QED
    BY <1>1, <1>2, <2>1, <2>2 DEF MarkInv, MarkedWasSent
<1> QED
  BY <1>3, <1>4, <1>5 DEF MarkInv

LEMMA MarkRead ==
  ASSUME MailTypeOK, MarkInv, NEW s \in Sender, ReadMails(s)
  PROVE  MarkInv'
<1> PICK b \in Batches :
       /\ \A u \in Sender \ {s} : batch'[u] = batch[u] /\ stage'[u] = stage[u]
       /\ stage'[s] = "send"
       /\ DOMAIN batch'[s] = DOMAIN b
       /\ \A n \in DOMAIN b : batch'[s][n].id = b[n] /\ batch'[s][n].mail = mails[b[n]].mail
  BY ReadCopies
<1>1. mails' = mails /\ Present' = Present /\ reused' = reused /\ sends' = sends /\ went' = went
  BY DEF ReadMails, Present
<1>2. HeldRight'
  <2> SUFFICES ASSUME NEW u \in Sender, NEW j \in DOMAIN batch'[u], batch'[u][j].id \in Present
               PROVE  \/ mails[batch'[u][j].id].mail = batch'[u][j].mail
                      \/ mails[batch'[u][j].id].mail \in reused
    BY <1>1 DEF HeldRight
  <2>1. CASE u = s
    BY <2>1
  <2>2. CASE u # s
    BY <2>2 DEF MarkInv, HeldRight
  <2> QED
    BY <2>1, <2>2
<1>3. WentCounted'
  <2> SUFFICES ASSUME NEW u \in Sender, stage'[u] = "update", went[u]
               PROVE  sends[Head(batch'[u]).mail] > 0
    BY <1>1 DEF WentCounted
  <2>1. u # s
    OBVIOUS
  <2> QED
    BY <2>1 DEF MarkInv, WentCounted
<1>4. MarkedWasSent'
  BY <1>1 DEF MarkInv, MarkedWasSent
<1> QED
  BY <1>2, <1>3, <1>4 DEF MarkInv

LEMMA MarkSend ==
  ASSUME MailTypeOK, MarkInv, NEW s \in Sender, SendMail(s)
  PROVE  MarkInv'
<1> DEFINE h == Head(batch[s]).mail
<1>1. h \in Mail
  BY TailOfBatch DEF SendMail, MailTypeOK, Copy
<1> PICK ok \in BOOLEAN :
       /\ went' = [went EXCEPT ![s] = ok]
       /\ sends' = IF ok THEN [sends EXCEPT ![h] = @ + 1] ELSE sends
  BY DEF SendMail
<1> HIDE DEF h
<1>2. \A m \in Mail : sends[m] > 0 => sends'[m] > 0
  <2>1. \A m \in Mail : sends[m] \in Nat
    BY DEF MailTypeOK
  <2>2. \A m \in Mail : sends'[m] = sends[m] \/ sends'[m] = sends[m] + 1
    BY <1>1 DEF MailTypeOK
  <2> QED
    BY <2>1, <2>2
<1>3. ok => sends'[h] > 0
  <2>1. sends[h] \in Nat
    BY <1>1 DEF MailTypeOK
  <2> QED
    BY <1>1, <2>1 DEF MailTypeOK
<1>4. mails' = mails /\ Present' = Present /\ reused' = reused /\ batch' = batch
  BY DEF SendMail, Present
<1>5. HeldRight'
  BY <1>4 DEF MarkInv, HeldRight
<1>6. WentCounted'
  <2> SUFFICES ASSUME NEW u \in Sender, stage'[u] = "update", went'[u]
               PROVE  sends'[Head(batch[u]).mail] > 0
    BY <1>4 DEF WentCounted
  <2>1. CASE u = s
    <3>1. ok
      BY <2>1 DEF MailTypeOK
    <3> QED
      BY <1>3, <2>1, <3>1 DEF h
  <2>2. CASE u # s
    <3>1. stage[u] = "update" /\ went[u]
      BY <2>2 DEF SendMail, MailTypeOK
    <3>2. Head(batch[u]).mail \in Mail
      BY <3>1, TailOfBatch DEF MailTypeOK, Copy
    <3> QED
      BY <1>2, <3>1, <3>2 DEF MarkInv, WentCounted
  <2> QED
    BY <2>1, <2>2
<1>7. MarkedWasSent'
  <2>1. \A i \in Present : mails[i].mail \in Mail
    BY DEF MailTypeOK
  <2> QED
    BY <1>2, <1>4, <2>1 DEF MarkInv, MarkedWasSent
<1> QED
  BY <1>5, <1>6, <1>7 DEF MarkInv
\* The copies that s still holds after its step on.
LEMMA HeldAdvance ==
  ASSUME MailTypeOK, MarkInv, NEW s \in Sender, stage[s] = "update", Advance(s),
         went' = went, sends' = sends, reused' = reused, Present' = Present,
         \A i \in Present : mails'[i].mail = mails[i].mail
  PROVE  HeldRight' /\ WentCounted'
<1>1. HeldRight'
  <2> SUFFICES ASSUME NEW u \in Sender, NEW j \in DOMAIN batch'[u], batch'[u][j].id \in Present
               PROVE  \/ mails[batch'[u][j].id].mail = batch'[u][j].mail
                      \/ mails[batch'[u][j].id].mail \in reused
    BY DEF HeldRight
  <2>1. PICK k \in DOMAIN batch[u] : batch'[u][j] = batch[u][k]
    BY AdvanceCopies
  <2> QED
    BY <2>1 DEF MarkInv, HeldRight
<1>2. WentCounted'
  <2> SUFFICES ASSUME NEW u \in Sender, stage'[u] = "update", went[u]
               PROVE  sends[Head(batch'[u]).mail] > 0
    BY DEF WentCounted
  <2>1. u # s
    BY AdvanceCopies
  <2>2. batch'[u] = batch[u] /\ stage[u] = "update"
    BY <2>1, AdvanceCopies
  <2> QED
    BY <2>2 DEF MarkInv, WentCounted
<1> QED
  BY <1>1, <1>2

LEMMA MarkUpdate ==
  ASSUME MailTypeOK, MarkInv, NEW s \in Sender, UpdateMail(s)
  PROVE  MarkInv'
<1> DEFINE h == Head(batch[s])
<1>1. /\ Present' = Present /\ reused' = reused /\ sends' = sends /\ went' = went
      /\ \A i \in Present :
           mails'[i] = IF i = h.id THEN Row(mails[i].mail, NewStatus(s), NewRetry(s)) ELSE mails[i]
  BY DEF UpdateMail, Present
<1>0. \A m, st, r : Row(m, st, r).mail = m /\ Row(m, st, r).status = st
  BY DEF Row
<1> HIDE DEF h
<1>2. \A i \in Present : mails'[i].mail = mails[i].mail
  BY <1>0, <1>1
<1>3. HeldRight' /\ WentCounted'
  BY <1>1, <1>2, HeldAdvance DEF UpdateMail
<1>4. ASSUME NEW i \in Present, mails'[i].status = Sent
      PROVE  sends[mails[i].mail] > 0 \/ mails[i].mail \in reused
  <2>1. CASE i # h.id
    BY <1>1, <1>4, <2>1 DEF MarkInv, MarkedWasSent
  <2>2. CASE i = h.id
    <3>1. NewStatus(s) = Sent
      BY <1>0, <1>1, <1>4, <2>2
    <3>2. went[s]
      BY <3>1 DEF NewStatus, Sent, GivenUp, Waiting
    <3>3. sends[h.mail] > 0
      BY <3>2 DEF UpdateMail, MarkInv, WentCounted, h
    <3>4. 1 \in DOMAIN batch[s] /\ h = batch[s][1]
      BY AdvanceCopies DEF UpdateMail, h
    <3> QED
      BY <2>2, <3>3, <3>4 DEF MarkInv, HeldRight
  <2> QED
    BY <2>1, <2>2
<1>5. MarkedWasSent'
  BY <1>1, <1>2, <1>4 DEF MarkedWasSent
<1> QED
  BY <1>3, <1>5 DEF MarkInv

LEMMA MarkUpdateFails ==
  ASSUME MailTypeOK, MarkInv, NEW s \in Sender, UpdateMailFails(s)
  PROVE  MarkInv'
<1>1. mails' = mails /\ Present' = Present /\ reused' = reused /\ sends' = sends /\ went' = went
  BY DEF UpdateMailFails, Present
<1>2. HeldRight' /\ WentCounted'
  BY <1>1, HeldAdvance DEF UpdateMailFails
<1> QED
  BY <1>1, <1>2 DEF MarkInv, MarkedWasSent

LEMMA MarkDies ==
  ASSUME MailTypeOK, MarkInv, NEW s \in Sender, SenderDies(s)
  PROVE  MarkInv'
<1>1. mails' = mails /\ Present' = Present /\ reused' = reused /\ sends' = sends /\ went' = went
  BY DEF SenderDies, Present
<1>2. batch'[s] = <<>> /\ stage'[s] = "idle"
      /\ \A u \in Sender \ {s} : batch'[u] = batch[u] /\ stage'[u] = stage[u]
  BY DEF SenderDies, MailTypeOK
<1>3. HeldRight'
  BY <1>1, <1>2 DEF MarkInv, HeldRight
<1>4. WentCounted'
  BY <1>1, <1>2 DEF MarkInv, WentCounted
<1> QED
  BY <1>1, <1>3, <1>4 DEF MarkInv, MarkedWasSent

LEMMA MarkRemove ==
  ASSUME MailTypeOK, MarkInv, NEW type, NEW c, NEW x, RemoveMails(type, c, x)
  PROVE  MarkInv'
<1>1. Present' \subseteq Present /\ \A i \in Present' : mails'[i] = mails[i]
  BY DEF RemoveMails, Present
<1>2. batch' = batch /\ stage' = stage /\ went' = went /\ sends' = sends /\ reused' = reused
  BY DEF RemoveMails
<1> QED
  BY <1>1, <1>2 DEF MarkInv, HeldRight, WentCounted, MarkedWasSent

LEMMA MarkStep == MailTypeOK /\ MarkInv /\ [MailNext]_mailVars => MarkInv'
<1> SUFFICES ASSUME MailTypeOK, MarkInv, [MailNext]_mailVars PROVE MarkInv'
  OBVIOUS
<1>1. CASE UNCHANGED mailVars
  BY <1>1 DEF mailVars, MarkInv, HeldRight, WentCounted, MarkedWasSent, Present
<1>2. ASSUME NEW m \in Mail, AddMailFails(m) PROVE MarkInv'
  BY <1>2 DEF AddMailFails, MarkInv, HeldRight, WentCounted, MarkedWasSent, Present
<1> QED
  BY <1>1, <1>2, MarkAdd, MarkRead, MarkSend, MarkUpdate, MarkUpdateFails, MarkDies, MarkRemove
     DEF MailNext, SenderStep

\* A row that says a mail was sent is right, unless its id was given out while a
\* sender still held it from an earlier mail (emaildb.c:122, 137).
THEOREM MarkedIsRight == MailSpec => []MarkedWasSent
<1>1. MailInit => MailTypeOK /\ MarkInv
  BY MailTypeInit, MarkInit
<1>2. MailTypeOK /\ MarkInv /\ [MailNext]_mailVars => MailTypeOK' /\ MarkInv'
  BY MailTypeStep, MarkStep
<1>3. MarkInv => MarkedWasSent
  BY DEF MarkInv
<1> QED
  BY <1>1, <1>2, <1>3, PTL DEF MailSpec
-----------------------------------------------------------------------------
(* No mail goes out twice without a reason *)

CopyOf(s, j, m) == j \in DOMAIN batch[s] /\ batch[s][j].mail = m

\* A mail is new and nothing of it exists; it has one row at most, one copy at
\* most, and the two have the same id.
NewInv(m) ==
  m \in unborn =>
    /\ \A i \in Present : mails[i].mail # m
    /\ \A s \in Sender : \A j \in DOMAIN batch[s] : ~CopyOf(s, j, m)
    /\ sends[m] = 0
RowInv(m) ==
  \A i, k \in Present : mails[i].mail = m /\ mails[k].mail = m => i = k
CopyInv(m) ==
  \A s, u \in Sender : \A j \in DOMAIN batch[s], k \in DOMAIN batch[u] :
    CopyOf(s, j, m) /\ CopyOf(u, k, m) => s = u /\ j = k
SameIdInv(m) ==
  \A s \in Sender : \A j \in DOMAIN batch[s], i \in Present :
    CopyOf(s, j, m) /\ mails[i].mail = m => batch[s][j].id = i

\* It has not gone out while its copy is still to be sent, nor while its row
\* waits without a copy.
UnsentInv(m) ==
  \A s \in Sender : \A j \in DOMAIN batch[s] :
    CopyOf(s, j, m) => (j = 1 /\ stage[s] = "update" /\ went[s]) \/ sends[m] = 0
WaitingInv(m) ==
  (\E i \in Present : mails[i].mail = m /\ mails[i].status = Waiting) =>
    \/ \E s \in Sender : \E j \in DOMAIN batch[s] : CopyOf(s, j, m)
    \/ sends[m] = 0

OnceInv(m) ==
  /\ NewInv(m) /\ RowInv(m) /\ CopyInv(m) /\ SameIdInv(m) /\ UnsentInv(m)
  /\ WaitingInv(m) /\ sends[m] <= 1

IdleInv == \A s \in Sender : stage[s] = "idle" => batch[s] = <<>>

Plain(m) == m \notin excused /\ m \notin reused

SendsInv == IdleInv /\ \A m \in Mail : Plain(m) => OnceInv(m)

LEMMA SendsInit == MailInit => SendsInv
<1> SUFFICES ASSUME MailInit PROVE SendsInv
  OBVIOUS
<1>1. Present = {} /\ \A s \in Sender : batch[s] = <<>> /\ DOMAIN batch[s] = {}
  BY DEF MailInit, Present
<1>2. \A m \in Mail : sends[m] = 0
  BY DEF MailInit
<1> QED
  BY <1>1, <1>2 DEF SendsInv, IdleInv, OnceInv, NewInv, RowInv, CopyInv, SameIdInv,
                    UnsentInv, WaitingInv

\* Steps that leave the copies and the counts alone and add no row.
LEMMA QuietMail ==
  ASSUME NEW m \in Mail, OnceInv(m), batch' = batch, stage' = stage, went' = went,
         sends' = sends, unborn' \subseteq unborn, Present' \subseteq Present,
         \A i \in Present' : mails'[i] = mails[i]
  PROVE  OnceInv(m)'
<1>1. NewInv(m)' /\ RowInv(m)' /\ CopyInv(m)'
  BY DEF OnceInv, NewInv, RowInv, CopyInv, CopyOf
<1>2. SameIdInv(m)' /\ UnsentInv(m)'
  BY DEF OnceInv, SameIdInv, UnsentInv, CopyOf
<1>3. WaitingInv(m)'
  BY DEF OnceInv, WaitingInv, CopyOf
<1> QED
  BY <1>1, <1>2, <1>3 DEF OnceInv

LEMMA SendsAdd ==
  ASSUME MailTypeOK, SendsInv, NEW n \in Mail, AddMail(n)
  PROVE  SendsInv'
<1> PICK i \in Id :
       /\ mails' = [j \in Present \cup {i} |-> IF j = i THEN Row(n, Waiting, 0) ELSE mails[j]]
       /\ reused' = IF \E s \in Sender : Holds(s, i) THEN reused \cup {n} ELSE reused
  BY DEF AddMail
<1>1. /\ Present' = Present \cup {i} /\ batch' = batch /\ stage' = stage /\ went' = went
      /\ sends' = sends /\ excused' = excused /\ n \in unborn /\ unborn' = unborn \ {n}
  BY DEF AddMail, Present
<1>2. mails'[i].mail = n /\ \A j \in Present \ {i} : mails'[j] = mails[j]
  BY DEF Row
<1>3. IdleInv'
  BY <1>1 DEF SendsInv, IdleInv
<1>4. ASSUME NEW m \in Mail, Plain(m)' PROVE OnceInv(m)'
  <2>1. OnceInv(m)
    BY <1>1, <1>4 DEF Plain, SendsInv
  <2>2. CASE m = n
    <3>1. /\ \A j \in Present : mails[j].mail # m
          /\ \A s \in Sender : \A j \in DOMAIN batch[s] : ~CopyOf(s, j, m)
          /\ sends[m] = 0
      BY <1>1, <2>1, <2>2 DEF OnceInv, NewInv
    <3>2. \A j \in Present' : mails'[j].mail = m => j = i
      BY <1>1, <1>2, <3>1
    <3>3. NewInv(m)' /\ RowInv(m)'
      BY <1>1, <2>2, <3>2 DEF NewInv, RowInv
    <3>4. \A s \in Sender : \A j \in DOMAIN batch'[s] : ~CopyOf(s, j, m)'
      BY <1>1, <3>1 DEF CopyOf
    <3> QED
      BY <1>1, <3>1, <3>3, <3>4
         DEF OnceInv, CopyInv, SameIdInv, UnsentInv, WaitingInv
  <2>3. CASE m # n
    <3>1. \A j \in Present' : mails'[j].mail = m => j \in Present /\ mails'[j] = mails[j]
      BY <1>1, <1>2, <2>3
    <3>2. NewInv(m)'
      BY <1>1, <2>1, <3>1 DEF OnceInv, NewInv, CopyOf
    <3>3. RowInv(m)'
      BY <2>1, <3>1 DEF OnceInv, RowInv
    <3>4. CopyInv(m)'
      BY <1>1, <2>1 DEF OnceInv, CopyInv, CopyOf
    <3>5. SameIdInv(m)' /\ UnsentInv(m)'
      BY <1>1, <2>1, <3>1 DEF OnceInv, SameIdInv, UnsentInv, CopyOf
    <3>6. WaitingInv(m)'
      BY <1>1, <2>1, <3>1 DEF OnceInv, WaitingInv, CopyOf
    <3> QED
      BY <1>1, <2>1, <3>2, <3>3, <3>4, <3>5, <3>6 DEF OnceInv
  <2> QED
    BY <2>2, <2>3
<1> QED
  BY <1>3, <1>4 DEF SendsInv

LEMMA SendsRead ==
  ASSUME MailTypeOK, SendsInv, NEW s \in Sender, ReadMails(s)
  PROVE  SendsInv'
<1> PICK b \in Batches :
       /\ IsInjective(b)
       /\ \A u \in Sender \ {s} : batch'[u] = batch[u] /\ stage'[u] = stage[u]
       /\ stage'[s] = "send"
       /\ DOMAIN batch'[s] = DOMAIN b
       /\ \A n \in DOMAIN b :
            /\ b[n] \in WaitingIds
            /\ batch'[s][n].id = b[n] /\ batch'[s][n].mail = mails[b[n]].mail
            /\ \A u \in Sender \ {s} : Holds(u, b[n]) => mails[b[n]].mail \in excused'
       /\ excused \subseteq excused'
  BY ReadCopies
<1>1. /\ Present' = Present /\ mails' = mails /\ went' = went /\ sends' = sends
      /\ reused' = reused /\ unborn' = unborn
  BY DEF ReadMails, Present
<1>2. batch[s] = <<>> /\ DOMAIN batch[s] = {}
  BY DEF ReadMails, SendsInv, IdleInv
<1>3. IdleInv'
  BY DEF SendsInv, IdleInv
<1>4. ASSUME NEW m \in Mail, Plain(m)' PROVE OnceInv(m)'
  <2>1. OnceInv(m) /\ m \notin excused'
    BY <1>1, <1>4 DEF Plain, SendsInv
  <2>2. \A n \in DOMAIN b : b[n] \in Present /\ mails[b[n]].status = Waiting
    BY DEF WaitingIds
  \* A row of m that is read had no copy, and m had not gone out.
  <2>3. ASSUME NEW n \in DOMAIN b, mails[b[n]].mail = m
        PROVE  sends[m] = 0 /\ \A u \in Sender : \A j \in DOMAIN batch[u] : ~CopyOf(u, j, m)
    <3>1. ASSUME NEW u \in Sender, NEW j \in DOMAIN batch[u], CopyOf(u, j, m) PROVE FALSE
      <4>1. u # s
        BY <1>2, <3>1
      <4>2. batch[u][j].id = b[n]
        BY <2>1, <2>2, <2>3, <3>1 DEF OnceInv, SameIdInv
      <4>3. Holds(u, b[n])
        BY <4>2 DEF Holds
      <4> QED
        BY <2>1, <2>3, <4>1, <4>3
    <3>2. sends[m] = 0
      BY <2>1, <2>2, <2>3, <3>1 DEF OnceInv, WaitingInv
    <3> QED
      BY <3>1, <3>2
  <2>4. \A u \in Sender \ {s} : \A j : CopyOf(u, j, m)' <=> CopyOf(u, j, m)
    BY DEF CopyOf
  <2>5. \A n : CopyOf(s, n, m)' <=> n \in DOMAIN b /\ mails[b[n]].mail = m
    BY DEF CopyOf
  <2>6. NewInv(m)'
    BY <1>1, <2>1, <2>2, <2>4, <2>5 DEF OnceInv, NewInv, CopyOf
  <2>7. RowInv(m)'
    BY <1>1, <2>1 DEF OnceInv, RowInv
  <2>8. CopyInv(m)'
    <3> SUFFICES ASSUME NEW u \in Sender, NEW v \in Sender,
                        NEW j \in DOMAIN batch'[u], NEW k \in DOMAIN batch'[v],
                        CopyOf(u, j, m)', CopyOf(v, k, m)'
                 PROVE  u = v /\ j = k
      BY DEF CopyInv
    <3>1. CASE u = s /\ v = s
      <4>1. b[j] = b[k]
        BY <2>1, <2>2, <2>5, <3>1 DEF OnceInv, RowInv
      <4> QED
        BY <2>5, <3>1, <4>1 DEF IsInjective
    <3>2. CASE u # s /\ v # s
      BY <2>1, <2>4, <3>2 DEF OnceInv, CopyInv, CopyOf
    <3>3. CASE u # s /\ v = s
      BY <2>3, <2>4, <2>5, <3>3 DEF CopyOf
    <3>4. CASE u = s /\ v # s
      BY <2>3, <2>4, <2>5, <3>4 DEF CopyOf
    <3> QED
      BY <3>1, <3>2, <3>3, <3>4
  <2>9. SameIdInv(m)'
    <3> SUFFICES ASSUME NEW u \in Sender, NEW j \in DOMAIN batch'[u], NEW i \in Present,
                        CopyOf(u, j, m)', mails[i].mail = m
                 PROVE  batch'[u][j].id = i
      BY <1>1 DEF SameIdInv
    <3>1. CASE u = s
      BY <2>1, <2>2, <2>5, <3>1 DEF OnceInv, RowInv
    <3>2. CASE u # s
      BY <2>1, <2>4, <3>2 DEF OnceInv, SameIdInv, CopyOf
    <3> QED
      BY <3>1, <3>2
  <2>10. UnsentInv(m)'
    <3> SUFFICES ASSUME NEW u \in Sender, NEW j \in DOMAIN batch'[u], CopyOf(u, j, m)'
                 PROVE  (j = 1 /\ stage'[u] = "update" /\ went[u]) \/ sends[m] = 0
      BY <1>1 DEF UnsentInv
    <3>1. CASE u = s
      BY <2>3, <2>5, <3>1
    <3>2. CASE u # s
      BY <2>1, <2>4, <3>2 DEF OnceInv, UnsentInv, CopyOf
    <3> QED
      BY <3>1, <3>2
  <2>11. WaitingInv(m)'
    BY <1>1, <1>2, <2>1, <2>4 DEF OnceInv, WaitingInv, CopyOf
  <2> QED
    BY <1>1, <2>1, <2>6, <2>7, <2>8, <2>9, <2>10, <2>11 DEF OnceInv
<1> QED
  BY <1>3, <1>4 DEF SendsInv
LEMMA SendsSend ==
  ASSUME MailTypeOK, SendsInv, NEW s \in Sender, SendMail(s)
  PROVE  SendsInv'
<1> DEFINE h == Head(batch[s]).mail
<1>0. 1 \in DOMAIN batch[s] /\ h = batch[s][1].mail /\ h \in Mail
  BY TailOfBatch DEF SendMail, MailTypeOK, Copy
<1> PICK ok \in BOOLEAN :
       /\ went' = [went EXCEPT ![s] = ok]
       /\ sends' = IF ok THEN [sends EXCEPT ![h] = @ + 1] ELSE sends
  BY DEF SendMail
<1> HIDE DEF h
<1>1. /\ Present' = Present /\ mails' = mails /\ batch' = batch /\ unborn' = unborn
      /\ excused' = excused /\ reused' = reused
  BY DEF SendMail, Present
<1>2. /\ stage[s] = "send" /\ stage'[s] = "update" /\ went'[s] = ok
      /\ \A u \in Sender \ {s} : stage'[u] = stage[u] /\ went'[u] = went[u]
  BY DEF SendMail, MailTypeOK
<1>3. \A m \in Mail : m # h => sends'[m] = sends[m]
  BY DEF MailTypeOK
<1>4. sends[h] \in Nat /\ sends'[h] = IF ok THEN sends[h] + 1 ELSE sends[h]
  BY <1>0 DEF MailTypeOK
<1>5. IdleInv'
  BY <1>1, <1>2 DEF SendsInv, IdleInv
<1>6. ASSUME NEW m \in Mail, Plain(m)' PROVE OnceInv(m)'
  <2>1. OnceInv(m)
    BY <1>1, <1>6 DEF Plain, SendsInv
  <2>2. CopyOf(s, 1, h)
    BY <1>0 DEF CopyOf
  <2>3. m = h => sends[m] = 0 /\ m \notin unborn
    BY <1>0, <1>2, <2>1, <2>2 DEF OnceInv, UnsentInv, NewInv
  <2>4. RowInv(m)' /\ CopyInv(m)' /\ SameIdInv(m)'
    BY <1>1, <2>1 DEF OnceInv, RowInv, CopyInv, SameIdInv, CopyOf
  <2>5. NewInv(m)'
    BY <1>1, <1>3, <2>1, <2>3 DEF OnceInv, NewInv, CopyOf
  <2>6. UnsentInv(m)'
    <3> SUFFICES ASSUME NEW u \in Sender, NEW j \in DOMAIN batch[u], CopyOf(u, j, m)
                 PROVE  (j = 1 /\ stage'[u] = "update" /\ went'[u]) \/ sends'[m] = 0
      BY <1>1 DEF UnsentInv, CopyOf
    <3>1. CASE m = h
      <4>1. u = s /\ j = 1
        BY <1>0, <2>1, <2>2, <3>1 DEF OnceInv, CopyInv
      <4> QED
        BY <1>2, <1>4, <2>3, <3>1, <4>1
    <3>2. CASE m # h
      <4>1. (j = 1 /\ stage[u] = "update" /\ went[u]) \/ sends[m] = 0
        BY <2>1 DEF OnceInv, UnsentInv
      <4> QED
        BY <1>2, <1>3, <3>2, <4>1
    <3> QED
      BY <3>1, <3>2
  <2>7. WaitingInv(m)'
    BY <1>0, <1>1, <1>3, <2>1, <2>2 DEF OnceInv, WaitingInv, CopyOf
  <2>8. sends'[m] <= 1
    <3>1. CASE m = h
      BY <1>4, <2>3, <3>1
    <3>2. CASE m # h
      BY <1>3, <2>1, <3>2 DEF OnceInv
    <3> QED
      BY <3>1, <3>2
  <2> QED
    BY <2>4, <2>5, <2>6, <2>7, <2>8 DEF OnceInv
<1> QED
  BY <1>5, <1>6 DEF SendsInv

\* The mail that s leaves behind does not wait any more, or has not gone out.
LEMMA AdvanceOnce ==
  ASSUME MailTypeOK, NEW s \in Sender, stage[s] = "update", Advance(s),
         went' = went, sends' = sends, unborn' = unborn, Present' = Present,
         \A i \in Present : mails'[i].mail = mails[i].mail,
         NEW m \in Mail, OnceInv(m),
         \A i \in Present : mails'[i].mail = m /\ mails'[i].status = Waiting =>
            \/ mails[i].status = Waiting /\ Head(batch[s]).mail # m
            \/ sends[m] = 0
  PROVE  OnceInv(m)'
<1>1. /\ \A u \in Sender \ {s} : batch'[u] = batch[u] /\ stage'[u] = stage[u]
      /\ 1 \in DOMAIN batch[s] /\ Head(batch[s]) = batch[s][1]
      /\ \A j \in DOMAIN batch'[s] :
           j \in Nat \ {0} /\ j + 1 \in DOMAIN batch[s] /\ batch'[s][j] = batch[s][j + 1]
      /\ \A j \in DOMAIN batch[s] :
           j # 1 => j - 1 \in DOMAIN batch'[s] /\ batch'[s][j - 1] = batch[s][j]
  BY AdvanceCopies
<1>2. \A u \in Sender \ {s} : \A j : CopyOf(u, j, m)' <=> CopyOf(u, j, m)
  BY <1>1 DEF CopyOf
<1>3. ASSUME NEW j \in DOMAIN batch'[s], CopyOf(s, j, m)'
      PROVE  j \in Nat \ {0} /\ j + 1 \in DOMAIN batch[s] /\ CopyOf(s, j + 1, m)
             /\ batch'[s][j] = batch[s][j + 1]
  BY <1>1, <1>3 DEF CopyOf
<1>4. RowInv(m)'
  BY DEF OnceInv, RowInv
<1>5. NewInv(m)'
  <2> SUFFICES ASSUME m \in unborn
               PROVE  \A u \in Sender : \A j \in DOMAIN batch'[u] : ~CopyOf(u, j, m)'
    BY DEF OnceInv, NewInv
  <2>1. \A u \in Sender : \A j \in DOMAIN batch[u] : ~CopyOf(u, j, m)
    BY DEF OnceInv, NewInv
  <2> QED
    BY <1>2, <1>3, <2>1 DEF CopyOf
<1>6. CopyInv(m)'
  <2> SUFFICES ASSUME NEW u \in Sender, NEW v \in Sender,
                      NEW j \in DOMAIN batch'[u], NEW k \in DOMAIN batch'[v],
                      CopyOf(u, j, m)', CopyOf(v, k, m)'
               PROVE  u = v /\ j = k
    BY DEF CopyInv
  <2>1. \A a, c \in Sender : \A x \in DOMAIN batch[a], y \in DOMAIN batch[c] :
          CopyOf(a, x, m) /\ CopyOf(c, y, m) => a = c /\ x = y
    BY DEF OnceInv, CopyInv
  <2>2. CASE u = s /\ v = s
    BY <1>3, <2>1, <2>2
  <2>3. CASE u # s /\ v # s
    BY <1>2, <2>1, <2>3 DEF CopyOf
  <2>4. CASE u # s /\ v = s
    BY <1>2, <1>3, <2>1, <2>4 DEF CopyOf
  <2>5. CASE u = s /\ v # s
    BY <1>2, <1>3, <2>1, <2>5 DEF CopyOf
  <2> QED
    BY <2>2, <2>3, <2>4, <2>5
<1>7. SameIdInv(m)'
  <2> SUFFICES ASSUME NEW u \in Sender, NEW j \in DOMAIN batch'[u], NEW i \in Present,
                      CopyOf(u, j, m)', mails[i].mail = m
               PROVE  batch'[u][j].id = i
    BY DEF SameIdInv
  <2>1. \A a \in Sender : \A x \in DOMAIN batch[a] : CopyOf(a, x, m) => batch[a][x].id = i
    BY DEF OnceInv, SameIdInv
  <2>2. CASE u = s
    BY <1>3, <2>1, <2>2
  <2>3. CASE u # s
    BY <1>1, <1>2, <2>1, <2>3
  <2> QED
    BY <2>2, <2>3
<1>8. UnsentInv(m)'
  <2> SUFFICES ASSUME NEW u \in Sender, NEW j \in DOMAIN batch'[u], CopyOf(u, j, m)'
               PROVE  (j = 1 /\ stage'[u] = "update" /\ went[u]) \/ sends[m] = 0
    BY DEF UnsentInv
  <2>1. \A a \in Sender : \A x \in DOMAIN batch[a] :
          CopyOf(a, x, m) => (x = 1 /\ stage[a] = "update" /\ went[a]) \/ sends[m] = 0
    BY DEF OnceInv, UnsentInv
  <2>2. CASE u = s
    <3>1. j \in Nat \ {0} /\ j + 1 # 1
      BY <1>3, <2>2
    <3> QED
      BY <1>3, <2>1, <2>2, <3>1
  <2>3. CASE u # s
    BY <1>1, <1>2, <2>1, <2>3
  <2> QED
    BY <2>2, <2>3
<1>9. WaitingInv(m)'
  <2> SUFFICES ASSUME NEW i \in Present, mails'[i].mail = m, mails'[i].status = Waiting,
                      sends[m] # 0
               PROVE  \E u \in Sender : \E j \in DOMAIN batch'[u] : CopyOf(u, j, m)'
    BY DEF WaitingInv
  <2>1. mails[i].mail = m /\ mails[i].status = Waiting /\ Head(batch[s]).mail # m
    OBVIOUS
  <2>2. PICK u \in Sender : \E j \in DOMAIN batch[u] : CopyOf(u, j, m)
    BY <2>1 DEF OnceInv, WaitingInv
  <2> PICK j \in DOMAIN batch[u] : CopyOf(u, j, m)
    BY <2>2
  <2>3. CASE u # s
    BY <1>1, <1>2, <2>3
  <2>4. CASE u = s
    <3>1. j # 1
      BY <1>1, <2>1, <2>4 DEF CopyOf
    <3>2. j - 1 \in DOMAIN batch'[s] /\ CopyOf(s, j - 1, m)'
      BY <1>1, <2>4, <3>1 DEF CopyOf
    <3> QED
      BY <3>2
  <2> QED
    BY <2>3, <2>4
<1> QED
  BY <1>4, <1>5, <1>6, <1>7, <1>8, <1>9 DEF OnceInv

LEMMA AdvanceIdle ==
  ASSUME MailTypeOK, SendsInv, NEW s \in Sender, stage[s] = "update", Advance(s)
  PROVE  IdleInv'
<1> SUFFICES ASSUME NEW u \in Sender, stage'[u] = "idle" PROVE batch'[u] = <<>>
  BY DEF IdleInv
<1>1. CASE u = s
  BY <1>1, AdvanceCopies
<1>2. CASE u # s
  BY <1>2, AdvanceCopies DEF SendsInv, IdleInv
<1> QED
  BY <1>1, <1>2
LEMMA SendsUpdate ==
  ASSUME MailTypeOK, MarkInv, SendsInv, NEW s \in Sender, UpdateMail(s)
  PROVE  SendsInv'
<1> DEFINE h == Head(batch[s])
<1>1. /\ Present' = Present /\ reused' = reused /\ sends' = sends /\ went' = went
      /\ unborn' = unborn /\ excused' = excused
      /\ \A i \in Present :
           mails'[i] = IF i = h.id THEN Row(mails[i].mail, NewStatus(s), NewRetry(s)) ELSE mails[i]
  BY DEF UpdateMail, Present
<1>2. \A n, st, r : Row(n, st, r).mail = n /\ Row(n, st, r).status = st
  BY DEF Row
<1>3. 1 \in DOMAIN batch[s] /\ h = batch[s][1]
  BY AdvanceCopies DEF UpdateMail
<1>4. \A i \in Present : i = h.id => mails[i].mail = h.mail \/ mails[i].mail \in reused
  BY <1>3 DEF MarkInv, HeldRight
<1> HIDE DEF h
<1>5. \A i \in Present : mails'[i].mail = mails[i].mail
  BY <1>1, <1>2
<1>6. ASSUME NEW m \in Mail, Plain(m)' PROVE OnceInv(m)'
  <2>1. OnceInv(m) /\ m \notin reused
    BY <1>1, <1>6 DEF Plain, SendsInv
  <2>2. h.mail = m => CopyOf(s, 1, m)
    BY <1>3 DEF CopyOf
  <2>3. ASSUME NEW i \in Present, mails'[i].mail = m, mails'[i].status = Waiting
        PROVE  (mails[i].status = Waiting /\ h.mail # m) \/ sends[m] = 0
    <3>1. CASE i = h.id
      <4>1. h.mail = m
        BY <1>4, <1>5, <2>1, <2>3, <3>1
      <4>2. NewStatus(s) = Waiting
        BY <1>1, <1>2, <2>3, <3>1
      <4>3. ~went[s]
        BY <4>2 DEF NewStatus, Waiting, Sent
      <4> QED
        BY <1>3, <2>1, <2>2, <4>1, <4>3 DEF OnceInv, UnsentInv
    <3>2. CASE i # h.id
      <4>1. mails'[i] = mails[i]
        BY <1>1, <3>2
      <4>2. h.mail # m
        BY <1>3, <2>1, <2>2, <2>3, <3>2, <4>1 DEF OnceInv, SameIdInv
      <4> QED
        BY <2>3, <4>1, <4>2
    <3> QED
      BY <3>1, <3>2
  <2> QED
    BY <1>1, <1>5, <2>1, <2>3, AdvanceOnce DEF UpdateMail, h
<1>7. IdleInv'
  BY AdvanceIdle DEF UpdateMail
<1> QED
  BY <1>6, <1>7 DEF SendsInv

LEMMA SendsUpdateFails ==
  ASSUME MailTypeOK, SendsInv, NEW s \in Sender, UpdateMailFails(s)
  PROVE  SendsInv'
<1> DEFINE h == Head(batch[s])
<1>1. /\ Present' = Present /\ mails' = mails /\ reused' = reused /\ sends' = sends
      /\ went' = went /\ unborn' = unborn
  BY DEF UpdateMailFails, Present
<1>2. excused \subseteq excused' /\ (went[s] => h.mail \in excused')
  BY DEF UpdateMailFails, WentUnwritten
<1>3. 1 \in DOMAIN batch[s] /\ h = batch[s][1]
  BY AdvanceCopies DEF UpdateMailFails
<1> HIDE DEF h
<1>4. ASSUME NEW m \in Mail, Plain(m)' PROVE OnceInv(m)'
  <2>1. OnceInv(m) /\ m \notin excused'
    BY <1>1, <1>2, <1>4 DEF Plain, SendsInv
  <2>2. h.mail = m => sends[m] = 0
    BY <1>2, <1>3, <2>1 DEF OnceInv, UnsentInv, CopyOf
  <2>3. \A i \in Present : mails'[i].mail = m /\ mails'[i].status = Waiting =>
           (mails[i].status = Waiting /\ h.mail # m) \/ sends[m] = 0
    BY <1>1, <2>2
  <2> QED
    BY <1>1, <2>1, <2>3, AdvanceOnce DEF UpdateMailFails, h
<1>5. IdleInv'
  BY AdvanceIdle DEF UpdateMailFails
<1> QED
  BY <1>4, <1>5 DEF SendsInv

LEMMA SendsDies ==
  ASSUME MailTypeOK, SendsInv, NEW s \in Sender, SenderDies(s)
  PROVE  SendsInv'
<1>1. /\ Present' = Present /\ mails' = mails /\ reused' = reused /\ sends' = sends
      /\ went' = went /\ unborn' = unborn
  BY DEF SenderDies, Present
<1>2. /\ batch'[s] = <<>> /\ DOMAIN batch'[s] = {} /\ stage'[s] = "idle"
      /\ \A u \in Sender \ {s} : batch'[u] = batch[u] /\ stage'[u] = stage[u]
  BY DEF SenderDies, MailTypeOK
<1>3. /\ excused \subseteq excused'
      /\ stage[s] = "update" /\ went[s] => Head(batch[s]).mail \in excused'
  BY DEF SenderDies, WentUnwritten
<1>4. Head(batch[s]) = batch[s][1]
  BY TailOfBatch DEF SenderDies, MailTypeOK
<1>5. IdleInv'
  BY <1>2 DEF SendsInv, IdleInv
<1>6. ASSUME NEW m \in Mail, Plain(m)' PROVE OnceInv(m)'
  <2>1. OnceInv(m) /\ m \notin excused'
    BY <1>1, <1>3, <1>6 DEF Plain, SendsInv
  <2>2. \A j : ~CopyOf(s, j, m)'
    BY <1>2 DEF CopyOf
  <2>3. \A u \in Sender \ {s} : \A j : CopyOf(u, j, m)' <=> CopyOf(u, j, m)
    BY <1>2 DEF CopyOf
  \* What s held of m had not gone out.
  <2>4. \A j \in DOMAIN batch[s] : CopyOf(s, j, m) => sends[m] = 0
    BY <1>3, <1>4, <2>1 DEF OnceInv, UnsentInv, CopyOf
  <2>5. NewInv(m)' /\ RowInv(m)'
    BY <1>1, <1>2, <2>1, <2>2, <2>3 DEF OnceInv, NewInv, RowInv
  <2>6. CopyInv(m)'
    BY <1>2, <2>1, <2>2, <2>3 DEF OnceInv, CopyInv
  <2>7. SameIdInv(m)'
    BY <1>1, <1>2, <2>1, <2>2, <2>3 DEF OnceInv, SameIdInv
  <2>8. UnsentInv(m)'
    BY <1>1, <1>2, <2>1, <2>2, <2>3 DEF OnceInv, UnsentInv
  <2>9. WaitingInv(m)'
    BY <1>1, <1>2, <2>1, <2>3, <2>4 DEF OnceInv, WaitingInv
  <2> QED
    BY <1>1, <2>1, <2>5, <2>6, <2>7, <2>8, <2>9 DEF OnceInv
<1> QED
  BY <1>5, <1>6 DEF SendsInv

LEMMA SendsStep == MailTypeOK /\ MarkInv /\ SendsInv /\ [MailNext]_mailVars => SendsInv'
<1> SUFFICES ASSUME MailTypeOK, MarkInv, SendsInv, [MailNext]_mailVars PROVE SendsInv'
  OBVIOUS
<1>1. ASSUME batch' = batch, stage' = stage, went' = went, sends' = sends,
             unborn' \subseteq unborn, Present' \subseteq Present,
             \A i \in Present' : mails'[i] = mails[i],
             excused' = excused, reused' = reused
      PROVE  SendsInv'
  BY <1>1, QuietMail DEF SendsInv, IdleInv, Plain
<1>2. CASE UNCHANGED mailVars
  BY <1>1, <1>2 DEF mailVars, Present
<1>3. ASSUME NEW m \in Mail, AddMailFails(m) PROVE SendsInv'
  BY <1>1, <1>3 DEF AddMailFails, Present
<1>4. ASSUME NEW type, NEW c, NEW x, RemoveMails(type, c, x) PROVE SendsInv'
  <2>1. Present' \subseteq Present /\ \A i \in Present' : mails'[i] = mails[i]
    BY <1>4 DEF RemoveMails, Present
  <2> QED
    BY <1>1, <1>4, <2>1 DEF RemoveMails
<1> QED
  BY <1>2, <1>3, <1>4, SendsAdd, SendsRead, SendsSend, SendsUpdate, SendsUpdateFails, SendsDies
     DEF MailNext, SenderStep

\* A mail goes out twice only when two senders had read it together, it went out
\* and was not written back, or its id was held by a sender when it was added
\* (emaildb.c:84, 115-127).
THEOREM SentOnce == MailSpec => []SentAgainForAReason
<1>1. MailInit => MailTypeOK /\ MarkInv /\ SendsInv
  BY MailTypeInit, MarkInit, SendsInit
<1>2. MailTypeOK /\ MarkInv /\ SendsInv /\ [MailNext]_mailVars
        => MailTypeOK' /\ MarkInv' /\ SendsInv'
  BY MailTypeStep, MarkStep, SendsStep
<1>3. MailTypeOK /\ SendsInv => SentAgainForAReason
  <2> SUFFICES ASSUME MailTypeOK, SendsInv, NEW m \in Mail, sends[m] > 1, Plain(m)
               PROVE  FALSE
    BY DEF SentAgainForAReason, Plain
  <2>1. sends[m] \in Nat /\ sends[m] <= 1
    BY DEF MailTypeOK, SendsInv, OnceInv
  <2> QED
    BY <2>1
<1> QED
  BY <1>1, <1>2, <1>3, PTL DEF MailSpec
=============================================================================
