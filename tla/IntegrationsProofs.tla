------------------------- MODULE IntegrationsProofs -------------------------
(***************************************************************************)
(* Proofs about the integrations page, for any credentials, any number of  *)
(* accounts and any number of handlers in progress.                        *)
(***************************************************************************)
EXTENDS Integrations, TLAPS

(* The inductive invariant                                                 *)

\* Ids above made are not in use, and a connection has the account that was
\* created with it.
IdsFresh ==
  /\ \A a \in Ids : accounts[a] # None => a <= made
  /\ \A i \in Ids : conns[i] # None => i <= made /\ conns[i].account = i

\* What a handler that connects or edits holds in memory fits its connection.
WriterSound(t) ==
  t.op \in {"connect", "edit"} =>
    /\ t.cred \in Creds
    /\ t.op = "connect" /\ t.stage = "start" => t.row = 0
    /\ t.stage = "read" => t.cred \in Works /\ t.number \in Numbers
    /\ t.stage = "read" /\ t.row # 0 => t.was \in Account
    /\ t.op = "edit" \/ (t.stage = "read" /\ t.row # 0) =>
         /\ t.row \in Ids /\ t.row <= made /\ t.account = t.row
         /\ conns[t.row] # None => conns[t.row].key = MethodOf[t.cred]

\* Credentials under validation are those stored, unless they were replaced
\* by credentials known to work.
JudgeSound(t) ==
  t.op = "judge" =>
    /\ t.account \in Ids /\ t.account <= made
    /\ t.stage = "read" =>
         /\ t.was \in Account
         /\ accounts[t.account] # None =>
              accounts[t.account].cred = t.was.cred \/ accounts[t.account].cred \in Works

\* A handler that connects has seen the cards.
ConnectSound(t) == t.op = "connect" => \A k \in AwsKeys : card[k] = "off"

TasksSound == \A h \in Handlers : WriterSound(task[h]) /\ JudgeSound(task[h]) /\ ConnectSound(task[h])

IInv == /\ TypeOK /\ IdsFresh /\ TasksSound
        /\ ConnectionsOwnAccounts /\ AwsCardsStay /\ ValidMeansAccepted

-----------------------------------------------------------------------------
(* Types                                                                   *)

Task == [op : {"idle", "connect", "edit", "judge"}, stage : {"start", "read"},
         row : Ids \cup {0}, account : Ids \cup {0}, cred : Creds \cup {None},
         number : Numbers \cup {None}, was : Account \cup {None}]

LEMMA IdleTyped == Idle \in Task
BY DEF Idle, Task

\* Every step keeps the types: one step per action.
LEMMA TypeStep == TypeOK /\ TasksSound /\ [Next]_vars => TypeOK'
<1> SUFFICES ASSUME TypeOK, TasksSound, [Next]_vars PROVE TypeOK'
  OBVIOUS
<1> USE IntegrationsAssumption
<1>a. /\ card \in [Keys -> {"absent", "off", "on"}]
      /\ conns \in [Ids -> Row \cup {None}]
      /\ accounts \in [Ids -> Account \cup {None}]
      /\ made \in 0..MaxMade
      /\ task \in [Handlers -> Task]
  BY DEF TypeOK, Task
<1>b. Seeded \in [Keys -> {"absent", "off", "on"}]
  BY <1>a DEF Seeded
<1>c. ASSUME NEW h \in Handlers, NEW t \in Task, Set(h, t)
      PROVE  task' \in [Handlers -> Task]
  BY <1>a, <1>c DEF Set
<1>d. \A c \in Creds : RealOf[c] \in Numbers
  BY DEF Numbers
<1>e. \A c \in Creds : Resolved(c) \subseteq Numbers /\ MethodOf[c] \in AwsKeys
  BY DEF Resolved, Numbers
<1> SUFFICES /\ card' \in [Keys -> {"absent", "off", "on"}]
             /\ conns' \in [Ids -> Row \cup {None}]
             /\ accounts' \in [Ids -> Account \cup {None}]
             /\ made' \in 0..MaxMade
             /\ task' \in [Handlers -> Task]
  BY DEF TypeOK, Task
<1>1. CASE List
  BY <1>1, <1>a, <1>b DEF List
<1>2. CASE \E k \in Keys : DeleteCard(k)
  BY <1>2, <1>a DEF DeleteCard
<1>3. CASE \E k \in Singletons : ConnectSingleton(k)
  BY <1>3, <1>a, <1>b DEF ConnectSingleton
<1>4. CASE \E i \in Ids : DeleteConnection(i)
  BY <1>4, <1>a DEF DeleteConnection
<1>5. CASE \E i \in Ids : DeleteAccount(i)
  BY <1>5, <1>a DEF DeleteAccount
<1>6. ASSUME NEW h \in Handlers, HandlerStep(h)
      PROVE  /\ card' \in [Keys -> {"absent", "off", "on"}]
             /\ conns' \in [Ids -> Row \cup {None}]
             /\ accounts' \in [Ids -> Account \cup {None}]
             /\ made' \in 0..MaxMade
             /\ task' \in [Handlers -> Task]
  <2> DEFINE old == task[h]
  <2>0. /\ old \in Task /\ old.op \in {"idle", "connect", "edit", "judge"}
        /\ old.row \in Ids \cup {0} /\ old.account \in Ids \cup {0}
        /\ old.cred \in Creds \cup {None} /\ old.number \in Numbers \cup {None}
    BY <1>a DEF Task
  <2>1. CASE \E c \in Creds : ConnectBegin(h, c)
    <3> PICK c \in Creds : ConnectBegin(h, c)
      BY <2>1
    <3>1. [Idle EXCEPT !.op = "connect", !.cred = c] \in Task
      BY DEF Idle, Task
    <3> QED BY <3>1, <1>a, <1>b, <1>c DEF ConnectBegin
  <2>2. CASE \E c \in Creds, i \in Ids : EditBegin(h, i, c)
    <3> PICK c \in Creds, i \in Ids : EditBegin(h, i, c)
      BY <2>2
    <3>1. conns[i].account \in Ids
      BY <1>a DEF EditBegin, Row
    <3>2. [Idle EXCEPT !.op = "edit", !.row = i, !.account = conns[i].account, !.cred = c] \in Task
      BY <3>1 DEF Idle, Task
    <3> QED BY <3>2, <1>a, <1>c DEF EditBegin
  <2>3. CASE \E n \in Resolved(old.cred) : old.cred # None /\ ConnectRead(h, n)
    <3> PICK n \in Resolved(old.cred) : old.cred # None /\ ConnectRead(h, n)
      BY <2>3
    <3>1. n \in Numbers
      BY <1>e, <2>0
    <3>2. CASE Set(h, [old EXCEPT !.stage = "read", !.number = n])
      <4>1. [old EXCEPT !.stage = "read", !.number = n] \in Task
        BY <2>0, <3>1 DEF Task
      <4> QED BY <4>1, <3>2, <1>a, <1>c DEF ConnectRead
    <3>3. CASE \E i \in OthersWith(n, 0) :
                 Set(h, [old EXCEPT !.stage = "read", !.number = n, !.row = i,
                                    !.account = conns[i].account, !.was = accounts[conns[i].account]])
      <4> PICK i \in OthersWith(n, 0) :
                 Set(h, [old EXCEPT !.stage = "read", !.number = n, !.row = i,
                                    !.account = conns[i].account, !.was = accounts[conns[i].account]])
        BY <3>3
      <4>1. i \in Ids /\ conns[i].account \in Ids /\ accounts[conns[i].account] \in Account
        BY <1>a DEF OthersWith, Connections, Row
      <4>2. [old EXCEPT !.stage = "read", !.number = n, !.row = i, !.account = conns[i].account,
                        !.was = accounts[conns[i].account]] \in Task
        BY <2>0, <3>1, <4>1 DEF Task
      <4> QED BY <4>2, <1>a, <1>c DEF ConnectRead
    <3> QED BY <3>2, <3>3 DEF ConnectRead
  <2>4. CASE \E n \in Resolved(old.cred) : old.cred # None /\ EditRead(h, n)
    <3> PICK n \in Resolved(old.cred) : old.cred # None /\ EditRead(h, n)
      BY <2>4
    <3>1. n \in Numbers /\ accounts[old.account] \in Account \cup {None}
      <4>1. n \in Numbers
        BY <1>e, <2>0
      <4>2. old.account \in Ids
        BY DEF EditRead, TasksSound, WriterSound
      <4> QED BY <4>1, <4>2, <1>a
    <3>2. [old EXCEPT !.stage = "read", !.number = n, !.was = accounts[old.account]] \in Task
      BY <2>0, <3>1 DEF Task
    <3> QED BY <3>2, <1>a, <1>c DEF EditRead
  <2>5. CASE ConnectNew(h)
    <3>1. old.cred \in Creds /\ old.number \in Numbers /\ MethodOf[old.cred] \in AwsKeys
      BY <2>5 DEF ConnectNew, TasksSound, WriterSound
    <3>2. made + 1 \in Ids /\ made' \in 0..MaxMade
      BY <2>5, <1>a DEF ConnectNew, Ids
    <3>3. /\ [cred |-> old.cred, number |-> old.number, status |-> "VALID"] \in Account
          /\ [key |-> MethodOf[old.cred], account |-> made + 1] \in Row
      BY <3>1, <3>2 DEF Account, Verdict, Row
    <3> QED BY <2>5, <3>2, <3>3, <1>a, <1>c, IdleTyped DEF ConnectNew
  <2>6. CASE Overwrite(h)
    <3>1. /\ old.op \in {"connect", "edit"} /\ old.stage = "read" /\ old.row # 0
          /\ old.cred \in Creds /\ old.number \in Numbers /\ old.account \in Ids
          /\ accounts[old.account] \in Account
      BY <2>6, <1>a DEF Overwrite, TasksSound, WriterSound
    <3>2. ASSUME NEW number, number \in {accounts[old.account].number, old.number},
                 NEW status, status \in {accounts[old.account].status, "VALID"}
          PROVE  [cred |-> old.cred, number |-> number, status |-> status] \in Account
      BY <3>1, <3>2 DEF Account, Verdict
    <3>3. accounts' \in [Ids -> Account \cup {None}]
      BY <2>6, <3>1, <3>2, <1>a DEF Overwrite
    <3> QED BY <2>6, <3>3, <1>a, <1>c, IdleTyped DEF Overwrite
  <2>7. CASE \E c \in Creds, n \in Numbers : CreateAccount(h, c, n)
    <3> PICK c \in Creds, n \in Numbers : CreateAccount(h, c, n)
      BY <2>7
    <3>1. made + 1 \in Ids /\ made' \in 0..MaxMade
      BY <1>a DEF CreateAccount, Ids
    <3>2. [Idle EXCEPT !.op = "judge", !.account = made + 1] \in Task
      BY <3>1 DEF Idle, Task
    <3>3. accounts' \in [Ids -> Account \cup {None}]
      BY <1>a DEF CreateAccount, Account, Verdict
    <3> QED BY <3>1, <3>2, <3>3, <1>a, <1>c DEF CreateAccount
  <2>8. CASE \E a \in Ids : Revalidate(h, a)
    <3> PICK a \in Ids : Revalidate(h, a)
      BY <2>8
    <3>1. [Idle EXCEPT !.op = "judge", !.stage = "read", !.account = a, !.was = accounts[a]] \in Task
      BY <1>a DEF Idle, Task
    <3> QED BY <3>1, <1>a, <1>c DEF Revalidate
  <2>9. CASE JudgeRead(h)
    <3>1. accounts[old.account] \in Account
      BY <2>9, <1>a DEF JudgeRead, TasksSound, JudgeSound
    <3>2. [old EXCEPT !.stage = "read", !.was = accounts[old.account]] \in Task
      BY <2>0, <3>1 DEF Task
    <3> QED BY <2>9, <3>2, <1>a, <1>c DEF JudgeRead
  <2>10. CASE JudgeCommit(h)
    <3>1. accounts[old.account] \in Account /\ old.account \in Ids /\ old.was \in Account
      BY <2>10, <1>a DEF JudgeCommit, TasksSound, JudgeSound
    <3>2. ASSUME NEW s \in Verdict
          PROVE  [accounts[old.account] EXCEPT !.status = s] \in Account
      BY <3>1 DEF Account
    <3>3. PICK verdict \in Judged(old.was.cred) :
            accounts' = [accounts EXCEPT ![old.account].status =
                           IF verdict = old.was.status THEN @ ELSE verdict]
      BY <2>10 DEF JudgeCommit
    <3>4. verdict \in Verdict /\ accounts[old.account].status \in Verdict
      BY <3>1 DEF Judged, Verdict, Account
    <3>5. accounts' \in [Ids -> Account \cup {None}]
      BY <3>1, <3>2, <3>3, <3>4, <1>a
    <3> QED BY <2>10, <3>5, <1>a, <1>c, IdleTyped DEF JudgeCommit
  <2>11. CASE GiveUp(h)
    BY <2>11, <1>a, <1>c, IdleTyped DEF GiveUp
  <2> QED BY <1>6, <2>1, <2>2, <2>3, <2>4, <2>5, <2>6, <2>7, <2>8, <2>9, <2>10, <2>11 DEF HandlerStep
<1>7. CASE UNCHANGED vars
  BY <1>7, <1>a DEF vars
<1> QED BY <1>1, <1>2, <1>3, <1>4, <1>5, <1>6, <1>7 DEF Next

-----------------------------------------------------------------------------
(* The steps keep the invariant                                            *)

LEMMA InitIInv == Init => IInv
<1> SUFFICES ASSUME Init PROVE IInv
  OBVIOUS
<1> USE IntegrationsAssumption
<1>1. TypeOK
  BY IdleTyped DEF Init, TypeOK, Task
<1>2. Connections = {} /\ \A h \in Handlers : task[h].op = "idle"
  BY DEF Init, Idle, Connections
<1>3. IdsFresh /\ ConnectionsOwnAccounts /\ AwsCardsStay /\ ValidMeansAccepted
  BY <1>2 DEF Init, IdsFresh, ConnectionsOwnAccounts, AwsCardsStay, ValidMeansAccepted, Connections, AwsKeys, Keys
<1>4. TasksSound
  BY <1>2 DEF TasksSound, WriterSound, JudgeSound, ConnectSound
<1> QED BY <1>1, <1>3, <1>4 DEF IInv

\* Seeding leaves the AWS cards in place and not connected.
LEMMA SeedKeeps ==
  ASSUME IInv
  PROVE  \A k \in AwsKeys : Seeded[k] = "off"
BY DEF IInv, TypeOK, AwsCardsStay, Seeded, Keys

\* A step that changes one handler, and the cards at most by seeding them.
LEMMA TaskStepKeeps ==
  ASSUME IInv, TypeOK', UNCHANGED <<conns, accounts, made>>,
         card' = Seeded \/ card' = card,
         NEW h \in Handlers, NEW t, Set(h, t), WriterSound(t), JudgeSound(t),
         card' = Seeded \/ ConnectSound(t)
  PROVE  IInv'
<1>1. task' = [task EXCEPT ![h] = t] /\ task \in [Handlers -> {task[g] : g \in Handlers}]
  BY DEF Set, IInv, TypeOK
<1>2. TasksSound'
  BY <1>1, SeedKeeps DEF IInv, TasksSound, WriterSound, JudgeSound, ConnectSound
<1>3. AwsCardsStay'
  BY SeedKeeps DEF IInv, AwsCardsStay, Connections
<1>4. IdsFresh' /\ ConnectionsOwnAccounts' /\ ValidMeansAccepted'
  BY DEF IInv, IdsFresh, ConnectionsOwnAccounts, Connections, Users, ValidMeansAccepted
<1> QED BY <1>2, <1>3, <1>4 DEF IInv

\* A handler at rest holds nothing.
LEMMA IdleSound == WriterSound(Idle) /\ JudgeSound(Idle) /\ ConnectSound(Idle)
BY DEF Idle, WriterSound, JudgeSound, ConnectSound

LEMMA BeginKeeps ==
  ASSUME IInv, TypeOK', NEW h \in Handlers,
         \E c \in Creds : ConnectBegin(h, c) \/ \E i \in Ids : EditBegin(h, i, c)
  PROVE  IInv'
<1> USE IntegrationsAssumption
<1>1. ASSUME NEW c \in Creds, ConnectBegin(h, c)
      PROVE  IInv'
  <2>1. WriterSound([Idle EXCEPT !.op = "connect", !.cred = c])
        /\ JudgeSound([Idle EXCEPT !.op = "connect", !.cred = c])
    BY DEF Idle, WriterSound, JudgeSound
  <2> QED BY <1>1, <2>1, TaskStepKeeps DEF ConnectBegin
<1>2. ASSUME NEW c \in Creds, NEW i \in Ids, EditBegin(h, i, c)
      PROVE  IInv'
  <2> DEFINE t == [Idle EXCEPT !.op = "edit", !.row = i, !.account = conns[i].account, !.cred = c]
  <2>1. /\ conns[i] # None /\ MethodOf[c] = conns[i].key
        /\ i <= made /\ conns[i].account = i
    BY <1>2 DEF EditBegin, IInv, IdsFresh
  <2>2. /\ t.op = "edit" /\ t.stage = "start" /\ t.row = i /\ t.account = i /\ t.cred = c
    BY <2>1 DEF Idle
  <2>3. WriterSound(t) /\ JudgeSound(t) /\ ConnectSound(t)
    BY <2>1, <2>2 DEF WriterSound, JudgeSound, ConnectSound
  <2> QED BY <1>2, <2>3, TaskStepKeeps DEF EditBegin
<1> QED BY <1>1, <1>2

LEMMA ReadKeeps ==
  ASSUME IInv, TypeOK', NEW h \in Handlers, NEW n \in Resolved(task[h].cred), task[h].cred # None,
         ConnectRead(h, n) \/ EditRead(h, n)
  PROVE  IInv'
<1> USE IntegrationsAssumption
<1> DEFINE old == task[h]
<1>1. old.cred \in Creds /\ WriterSound(old) /\ ConnectSound(old) /\ n \in Numbers
  BY DEF IInv, TasksSound, TypeOK, Resolved, Numbers
<1>2. CASE ConnectRead(h, n)
  <2>1. old.op = "connect" /\ old.stage = "start" /\ old.cred \in Works
    BY <1>2 DEF ConnectRead, Accepted
  <2>2. old \in Task /\ old.row = 0
    BY <2>1, <1>1 DEF IInv, TypeOK, Task, WriterSound
  <2>3. CASE Set(h, [old EXCEPT !.stage = "read", !.number = n])
    <3> DEFINE t == [old EXCEPT !.stage = "read", !.number = n]
    <3>1. /\ t.op = "connect" /\ t.row = 0 /\ t.cred = old.cred
          /\ t.stage = "read" /\ t.number = n
      BY <2>1, <2>2 DEF Task
    <3>2. WriterSound(t) /\ JudgeSound(t) /\ ConnectSound(t)
      BY <3>1, <2>1, <1>1 DEF WriterSound, JudgeSound, ConnectSound
    <3> QED BY <1>2, <2>3, <3>2, TaskStepKeeps DEF ConnectRead
  <2>4. ASSUME NEW i \in OthersWith(n, 0), conns[i].key = MethodOf[old.cred],
               Set(h, [old EXCEPT !.stage = "read", !.number = n, !.row = i,
                                  !.account = conns[i].account, !.was = accounts[conns[i].account]])
        PROVE  IInv'
    <3> DEFINE t == [old EXCEPT !.stage = "read", !.number = n, !.row = i,
                                !.account = conns[i].account, !.was = accounts[conns[i].account]]
    <3>1. /\ t.op = "connect" /\ t.row = i /\ t.cred = old.cred /\ t.stage = "read"
          /\ t.number = n /\ t.account = conns[i].account /\ t.was = accounts[conns[i].account]
      BY <2>1, <2>2 DEF Task
    <3>2. i \in Ids /\ conns[i] # None /\ i <= made /\ conns[i].account = i /\ accounts[i] \in Account
      BY DEF OthersWith, Connections, IInv, IdsFresh, TypeOK
    <3>3. WriterSound(t) /\ JudgeSound(t) /\ ConnectSound(t)
      BY <3>1, <3>2, <2>1, <2>4, <1>1 DEF WriterSound, JudgeSound, ConnectSound
    <3> QED BY <1>2, <2>4, <3>3, TaskStepKeeps DEF ConnectRead
  <2> QED BY <1>2, <2>3, <2>4 DEF ConnectRead
<1>3. CASE EditRead(h, n)
  <2> DEFINE t == [old EXCEPT !.stage = "read", !.number = n, !.was = accounts[old.account]]
  <2>1. old.op = "edit" /\ old.stage = "start" /\ old.cred \in Works /\ accounts[old.account] # None
    BY <1>3 DEF EditRead, Accepted
  <2>2. old \in Task /\ old.account \in Ids
    BY <2>1, <1>1 DEF IInv, TypeOK, Task, WriterSound
  <2>3. /\ t.op = "edit" /\ t.row = old.row /\ t.account = old.account /\ t.cred = old.cred
        /\ t.stage = "read" /\ t.number = n /\ t.was = accounts[old.account]
    BY <2>1, <2>2 DEF Task
  <2>4. accounts[old.account] \in Account
    BY <2>1, <2>2 DEF IInv, TypeOK
  <2>5. WriterSound(t) /\ JudgeSound(t) /\ ConnectSound(t)
    BY <2>1, <2>3, <2>4, <1>1 DEF WriterSound, JudgeSound, ConnectSound
  <2> QED BY <1>3, <2>5, TaskStepKeeps DEF EditRead
<1> QED BY <1>2, <1>3

LEMMA JudgeReadKeeps ==
  ASSUME IInv, TypeOK', NEW h \in Handlers, JudgeRead(h) \/ \E a \in Ids : Revalidate(h, a)
  PROVE  IInv'
<1>1. CASE JudgeRead(h)
  <2> DEFINE old == task[h]
             t == [old EXCEPT !.stage = "read", !.was = accounts[old.account]]
  <2>1. /\ old \in Task /\ JudgeSound(old) /\ old.op = "judge"
        /\ accounts[old.account] # None
    BY <1>1 DEF JudgeRead, IInv, TypeOK, Task, TasksSound
  <2>2. t.op = "judge" /\ t.account = old.account /\ t.was = accounts[old.account]
    BY <2>1 DEF Task
  <2>3. accounts[old.account] \in Account
    BY <2>1 DEF JudgeSound, IInv, TypeOK
  <2>4. WriterSound(t) /\ JudgeSound(t) /\ ConnectSound(t)
    BY <2>1, <2>2, <2>3 DEF WriterSound, JudgeSound, ConnectSound
  <2> QED BY <1>1, <2>4, TaskStepKeeps DEF JudgeRead
<1>2. ASSUME NEW a \in Ids, Revalidate(h, a)
      PROVE  IInv'
  <2> DEFINE t == [Idle EXCEPT !.op = "judge", !.stage = "read", !.account = a, !.was = accounts[a]]
  <2>1. accounts[a] \in Account /\ a <= made
    BY <1>2 DEF Revalidate, IInv, IdsFresh, TypeOK
  <2>2. t.op = "judge" /\ t.account = a /\ t.was = accounts[a]
    BY DEF Idle
  <2>3. WriterSound(t) /\ JudgeSound(t) /\ ConnectSound(t)
    BY <2>1, <2>2 DEF WriterSound, JudgeSound, ConnectSound
  <2> QED BY <1>2, <2>3, TaskStepKeeps DEF Revalidate
<1> QED BY <1>1, <1>2

LEMMA ConnectNewKeeps ==
  ASSUME IInv, TypeOK', NEW h \in Handlers, ConnectNew(h)
  PROVE  IInv'
<1> USE IntegrationsAssumption
<1> DEFINE old == task[h]
           n == made + 1
<1>1. /\ old.cred \in Creds /\ old.cred \in Works /\ old.number \in Numbers
      /\ \A k \in AwsKeys : card[k] = "off"
  BY DEF ConnectNew, IInv, TasksSound, WriterSound, ConnectSound
<1>2. n \in Ids /\ conns[n] = None /\ accounts[n] = None /\ made < n /\ made \in Nat
  BY DEF ConnectNew, IInv, TypeOK, IdsFresh, Ids
<1>3. /\ made' = n /\ card' = card
      /\ \A i \in Ids : conns'[i] = IF i = n THEN [key |-> MethodOf[old.cred], account |-> n] ELSE conns[i]
      /\ \A i \in Ids : accounts'[i] =
           IF i = n THEN [cred |-> old.cred, number |-> old.number, status |-> "VALID"] ELSE accounts[i]
      /\ \A g \in Handlers : task'[g] = IF g = h THEN Idle ELSE task[g]
  BY DEF ConnectNew, IInv, TypeOK, Set
<1>4. [key |-> MethodOf[old.cred], account |-> n] # None
      /\ [cred |-> old.cred, number |-> old.number, status |-> "VALID"] # None
  BY <1>1, <1>2 DEF Row, Account, Verdict
<1>5. IdsFresh'
  BY <1>2, <1>3, <1>4 DEF IInv, IdsFresh, Ids
<1>6. TasksSound'
  <2> SUFFICES ASSUME NEW g \in Handlers
               PROVE  (WriterSound(task[g]) /\ JudgeSound(task[g]) /\ ConnectSound(task[g]))'
    BY DEF TasksSound
  <2>1. CASE g = h
    BY <2>1, <1>3, IdleSound DEF Idle, WriterSound, JudgeSound, ConnectSound
  <2>2. CASE g # h
    <3>1. task'[g] = task[g] /\ task[g] \in Task
      BY <2>2, <1>3 DEF IInv, TypeOK, Task
    <3>2. WriterSound(task[g]) /\ JudgeSound(task[g]) /\ ConnectSound(task[g])
      BY DEF IInv, TasksSound
    <3> QED BY <3>1, <3>2, <1>2, <1>3 DEF WriterSound, JudgeSound, ConnectSound, Task, Ids
  <2> QED BY <2>1, <2>2
<1>7. ConnectionsOwnAccounts'
  <2>1. ASSUME NEW i \in Ids, conns'[i] # None
        PROVE  conns'[i].account = i
    BY <1>3, <2>1 DEF IInv, IdsFresh
  <2>2. ASSUME NEW i \in Ids, conns'[i] # None
        PROVE  accounts'[i] # None /\ MethodOf[accounts'[i].cred] = conns'[i].key
    BY <1>3, <1>4, <2>2 DEF IInv, IdsFresh, ConnectionsOwnAccounts, Connections
  <2> QED BY <2>1, <2>2 DEF ConnectionsOwnAccounts, Connections, Users
<1>8. AwsCardsStay' /\ ValidMeansAccepted'
  BY <1>1, <1>3 DEF IInv, AwsCardsStay, ValidMeansAccepted
<1> QED BY <1>5, <1>6, <1>7, <1>8 DEF IInv

LEMMA OverwriteKeeps ==
  ASSUME IInv, TypeOK', NEW h \in Handlers, Overwrite(h)
  PROVE  IInv'
<1> USE IntegrationsAssumption
<1> DEFINE old == task[h]
           r == old.row
<1>1. /\ r \in Ids /\ old.account = r /\ old.cred \in Creds /\ old.cred \in Works
      /\ conns[r] # None /\ accounts[r] # None /\ conns[r].key = MethodOf[old.cred]
  BY DEF Overwrite, IInv, TasksSound, WriterSound
<1>2. /\ UNCHANGED <<card, conns, made>>
      /\ \A a \in Ids \ {r} : accounts'[a] = accounts[a]
      /\ accounts'[r].cred = old.cred
      /\ \A g \in Handlers : task'[g] = IF g = h THEN Idle ELSE task[g]
  BY <1>1 DEF Overwrite, IInv, TypeOK, Set
<1>3. accounts'[r] # None
  <2>1. \E n \in Numbers, s \in Verdict : accounts'[r] = [cred |-> old.cred, number |-> n, status |-> s]
    <3>1. accounts[r] \in Account /\ old.number \in Numbers
      BY <1>1 DEF Overwrite, IInv, TypeOK, TasksSound, WriterSound
    <3> DEFINE number == IF old.number = old.was.number THEN accounts[r].number ELSE old.number
               status == IF old.was.status = "VALID" THEN accounts[r].status ELSE "VALID"
    <3>2. accounts'[r] = [cred |-> old.cred, number |-> number, status |-> status]
      BY <1>1 DEF Overwrite, IInv, TypeOK
    <3>3. number \in Numbers /\ status \in Verdict
      BY <3>1 DEF Account, Verdict
    <3> QED BY <3>2, <3>3
  <2>2. \A n \in Numbers, s \in Verdict : [cred |-> old.cred, number |-> n, status |-> s] # None
    BY <1>1 DEF Account
  <2> QED BY <2>1, <2>2
<1>4. IdsFresh'
  BY <1>1, <1>2 DEF IInv, IdsFresh
<1>5. TasksSound'
  <2> SUFFICES ASSUME NEW g \in Handlers
               PROVE  (WriterSound(task[g]) /\ JudgeSound(task[g]) /\ ConnectSound(task[g]))'
    BY DEF TasksSound
  <2>1. CASE g = h
    BY <2>1, <1>2 DEF Idle, WriterSound, JudgeSound, ConnectSound
  <2>2. CASE g # h
    <3>1. task'[g] = task[g]
      BY <2>2, <1>2
    <3>2. WriterSound(task[g]) /\ JudgeSound(task[g]) /\ ConnectSound(task[g])
      BY DEF IInv, TasksSound
    <3> QED BY <3>1, <3>2, <1>1, <1>2 DEF WriterSound, JudgeSound, ConnectSound
  <2> QED BY <2>1, <2>2
<1>6. ConnectionsOwnAccounts'
  <2>1. \A i \in Ids : conns[i] # None => conns[i].account = i
    BY DEF IInv, IdsFresh
  <2>2. ASSUME NEW i \in Ids, conns[i] # None
        PROVE  accounts'[i] # None /\ MethodOf[accounts'[i].cred] = conns[i].key
    BY <1>1, <1>2, <1>3, <2>1, <2>2 DEF IInv, ConnectionsOwnAccounts, Connections
  <2> QED BY <1>2, <2>1, <2>2 DEF ConnectionsOwnAccounts, Connections, Users
<1>7. AwsCardsStay' /\ ValidMeansAccepted'
  BY <1>1, <1>2 DEF IInv, AwsCardsStay, ValidMeansAccepted, Connections
<1> QED BY <1>4, <1>5, <1>6, <1>7 DEF IInv

LEMMA CreateAccountKeeps ==
  ASSUME IInv, TypeOK', NEW h \in Handlers, NEW c \in Creds, NEW number \in Numbers,
         CreateAccount(h, c, number)
  PROVE  IInv'
<1> USE IntegrationsAssumption
<1> DEFINE n == made + 1
           t == [Idle EXCEPT !.op = "judge", !.account = n]
<1>1. n \in Ids /\ accounts[n] = None /\ conns[n] = None /\ made < n /\ made \in Nat
  BY DEF CreateAccount, IInv, TypeOK, IdsFresh, Ids
<1>2. /\ made' = n /\ UNCHANGED <<card, conns>>
      /\ \A a \in Ids \ {n} : accounts'[a] = accounts[a]
      /\ accounts'[n].status = "PENDING"
      /\ \A g \in Handlers : task'[g] = IF g = h THEN t ELSE task[g]
  BY <1>1 DEF CreateAccount, IInv, TypeOK, Set
<1>3. t.op = "judge" /\ t.account = n /\ t.stage = "start"
  BY DEF Idle
<1> HIDE DEF t
<1>4. IdsFresh'
  BY <1>1, <1>2 DEF IInv, IdsFresh, Ids
<1>5. TasksSound'
  <2> SUFFICES ASSUME NEW g \in Handlers
               PROVE  (WriterSound(task[g]) /\ JudgeSound(task[g]) /\ ConnectSound(task[g]))'
    BY DEF TasksSound
  <2>1. CASE g = h
    BY <2>1, <1>1, <1>2, <1>3 DEF WriterSound, JudgeSound, ConnectSound
  <2>2. CASE g # h
    <3>1. task'[g] = task[g]
      BY <2>2, <1>2
    <3>2. WriterSound(task[g]) /\ JudgeSound(task[g]) /\ ConnectSound(task[g])
      BY DEF IInv, TasksSound
    <3> QED BY <3>1, <3>2, <1>1, <1>2 DEF WriterSound, JudgeSound, ConnectSound, Ids
  <2> QED BY <2>1, <2>2
<1>6. ConnectionsOwnAccounts'
  BY <1>1, <1>2 DEF IInv, IdsFresh, ConnectionsOwnAccounts, Connections, Users
<1>7. AwsCardsStay' /\ ValidMeansAccepted'
  BY <1>1, <1>2 DEF IInv, AwsCardsStay, ValidMeansAccepted, Connections
<1> QED BY <1>4, <1>5, <1>6, <1>7 DEF IInv

LEMMA JudgeCommitKeeps ==
  ASSUME IInv, TypeOK', NEW h \in Handlers, JudgeCommit(h)
  PROVE  IInv'
<1> USE IntegrationsAssumption
<1> DEFINE old == task[h]
           a == old.account
<1>1. /\ a \in Ids /\ accounts[a] \in Account /\ old.was \in Account
      /\ accounts[a].cred = old.was.cred \/ accounts[a].cred \in Works
  BY DEF JudgeCommit, IInv, TypeOK, TasksSound, JudgeSound
<1>2. PICK verdict \in Judged(old.was.cred) :
        accounts' = [accounts EXCEPT ![a].status = IF verdict = old.was.status THEN @ ELSE verdict]
  BY DEF JudgeCommit
<1>3. verdict \in Verdict /\ (verdict = "VALID" => old.was.cred \in Works)
  BY DEF Judged, Verdict
<1>4. /\ UNCHANGED <<card, conns, made>>
      /\ \A b \in Ids \ {a} : accounts'[b] = accounts[b]
      /\ accounts'[a] = [accounts[a] EXCEPT !.status = IF verdict = old.was.status THEN @ ELSE verdict]
      /\ \A g \in Handlers : task'[g] = IF g = h THEN Idle ELSE task[g]
  BY <1>1, <1>2 DEF JudgeCommit, IInv, TypeOK, Set
<1>5. /\ accounts'[a] \in Account /\ accounts'[a].cred = accounts[a].cred
      /\ accounts'[a].status \in {accounts[a].status, verdict}
  BY <1>1, <1>3, <1>4 DEF Account, Verdict
<1>6. /\ UNCHANGED <<card, conns, made>>
      /\ \A b \in Ids : /\ accounts'[b] # None <=> accounts[b] # None
                        /\ accounts[b] # None => accounts'[b].cred = accounts[b].cred
      /\ \A g \in Handlers : task'[g] = IF g = h THEN Idle ELSE task[g]
  BY <1>1, <1>4, <1>5, IntegrationsAssumption
<1>7. IdsFresh'
  BY <1>6 DEF IInv, IdsFresh
<1>8. TasksSound'
  <2> SUFFICES ASSUME NEW g \in Handlers
               PROVE  (WriterSound(task[g]) /\ JudgeSound(task[g]) /\ ConnectSound(task[g]))'
    BY DEF TasksSound
  <2>1. CASE g = h
    BY <2>1, <1>6 DEF Idle, WriterSound, JudgeSound, ConnectSound
  <2>2. CASE g # h
    <3>1. task'[g] = task[g]
      BY <2>2, <1>6
    <3>2. WriterSound(task[g]) /\ JudgeSound(task[g]) /\ ConnectSound(task[g])
      BY DEF IInv, TasksSound
    <3> QED BY <3>1, <3>2, <1>6 DEF WriterSound, JudgeSound, ConnectSound
  <2> QED BY <2>1, <2>2
<1>9. ConnectionsOwnAccounts' /\ AwsCardsStay'
  BY <1>6 DEF IInv, IdsFresh, ConnectionsOwnAccounts, AwsCardsStay, Connections, Users
<1>10. ValidMeansAccepted'
  <2>1. accounts'[a].status = "VALID" => accounts'[a].cred \in Works
    BY <1>1, <1>3, <1>5, <1>6 DEF IInv, ValidMeansAccepted
  <2> QED BY <2>1, <1>4 DEF IInv, ValidMeansAccepted
<1> QED BY <1>7, <1>8, <1>9, <1>10 DEF IInv

\* The deletion of connected accounts that the index refuses never goes
\* through: an AWS key has its card, so an account that goes has no users.
LEMMA DeleteKeeps ==
  ASSUME IInv, TypeOK', NEW i \in Ids, DeleteConnection(i) \/ DeleteAccount(i)
  PROVE  IInv'
<1>1. /\ card' = card /\ made' = made /\ task' = task /\ accounts'[i] = None
      /\ conns'[i] = None
      /\ \A j \in Ids \ {i} : conns'[j] = conns[j] /\ accounts'[j] = accounts[j]
  <2>1. CASE DeleteConnection(i)
    BY <2>1 DEF DeleteConnection, IInv, TypeOK, IdsFresh
  <2>2. CASE DeleteAccount(i)
    <3>1. Users(i) = {}
      <4> SUFFICES ASSUME NEW j \in Users(i) PROVE FALSE
        OBVIOUS
      <4>1. j \in Ids /\ conns[j] \in Row /\ Connections # {}
        BY DEF Users, Connections, IInv, TypeOK
      <4>2. card[conns[j].key] = "off"
        BY <4>1 DEF Row, IInv, AwsCardsStay
      <4> QED BY <4>2, <2>2 DEF DeleteAccount
    <3>2. conns' = conns /\ card' = card
      BY <2>2, <3>1 DEF DeleteAccount, IInv, TypeOK
    <3>3. conns[i] = None
      BY <3>1 DEF Users, Connections, IInv, IdsFresh
    <3> QED BY <2>2, <3>2, <3>3 DEF DeleteAccount, IInv, TypeOK
  <2> QED BY <2>1, <2>2
<1>2. IdsFresh' /\ TasksSound'
  BY <1>1 DEF IInv, IdsFresh, TasksSound, WriterSound, JudgeSound, ConnectSound
<1>3. ConnectionsOwnAccounts'
  BY <1>1 DEF IInv, IdsFresh, ConnectionsOwnAccounts, Connections, Users
<1>4. AwsCardsStay' /\ ValidMeansAccepted'
  BY <1>1 DEF IInv, AwsCardsStay, ValidMeansAccepted, Connections
<1> QED BY <1>2, <1>3, <1>4 DEF IInv

LEMMA CardKeeps ==
  ASSUME IInv, TypeOK',
         List \/ (\E k \in Keys : DeleteCard(k)) \/ (\E k \in Singletons : ConnectSingleton(k))
  PROVE  IInv'
<1>1. /\ UNCHANGED <<conns, accounts, made, task>>
      /\ \A k \in AwsKeys : card'[k] = Seeded[k] \/ (card'[k] = card[k] /\ \E j \in Keys : card[j] # "absent")
  BY IntegrationsAssumption DEF List, DeleteCard, ConnectSingleton, IInv, TypeOK, Keys, Seeded
<1>2. \A k \in AwsKeys : card'[k] = "off"
  BY <1>1, SeedKeeps DEF IInv, AwsCardsStay
<1>3. TasksSound'
  BY <1>1, <1>2 DEF IInv, TasksSound, WriterSound, JudgeSound, ConnectSound
<1>4. IdsFresh' /\ ConnectionsOwnAccounts' /\ ValidMeansAccepted'
  BY <1>1 DEF IInv, IdsFresh, ConnectionsOwnAccounts, ValidMeansAccepted, Connections, Users
<1> QED BY <1>2, <1>3, <1>4 DEF IInv, AwsCardsStay

LEMMA NextIInv == IInv /\ [Next]_vars => IInv'
<1> SUFFICES ASSUME IInv, [Next]_vars PROVE IInv'
  OBVIOUS
<1>0. TypeOK'
  BY TypeStep DEF IInv
<1>1. CASE List \/ (\E k \in Keys : DeleteCard(k)) \/ (\E k \in Singletons : ConnectSingleton(k))
  BY <1>0, <1>1, CardKeeps
<1>2. CASE \E i \in Ids : DeleteConnection(i) \/ DeleteAccount(i)
  BY <1>0, <1>2, DeleteKeeps
<1>3. ASSUME NEW h \in Handlers, HandlerStep(h)
      PROVE  IInv'
  <2>1. CASE GiveUp(h)
    BY <1>0, <2>1, IdleSound, TaskStepKeeps DEF GiveUp
  <2>2. CASE \E c \in Creds : ConnectBegin(h, c) \/ \E i \in Ids : EditBegin(h, i, c)
    BY <1>0, <2>2, BeginKeeps
  <2>3. CASE task[h].cred # None /\ \E n \in Resolved(task[h].cred) : ConnectRead(h, n) \/ EditRead(h, n)
    BY <1>0, <2>3, ReadKeeps
  <2>4. CASE ConnectNew(h) \/ Overwrite(h) \/ JudgeCommit(h)
    BY <1>0, <2>4, ConnectNewKeeps, OverwriteKeeps, JudgeCommitKeeps
  <2>5. CASE \E c \in Creds, n \in Numbers : CreateAccount(h, c, n)
    BY <1>0, <2>5, CreateAccountKeeps
  <2>6. CASE JudgeRead(h) \/ \E a \in Ids : Revalidate(h, a)
    BY <1>0, <2>6, JudgeReadKeeps
  <2> QED BY <1>3, <2>1, <2>2, <2>3, <2>4, <2>5, <2>6 DEF HandlerStep
<1>4. CASE UNCHANGED vars
  BY <1>4 DEF vars, IInv, TypeOK, IdsFresh, TasksSound, WriterSound, JudgeSound, ConnectSound,
              ConnectionsOwnAccounts, AwsCardsStay, ValidMeansAccepted, Connections, Users
<1> QED BY <1>1, <1>2, <1>3, <1>4 DEF Next

-----------------------------------------------------------------------------
(* The theorems                                                            *)

LEMMA Invariance == Spec => []IInv
BY InitIInv, NextIInv, PTL DEF Spec

\* Every reachable state is well typed.
THEOREM TypeCorrect == Spec => []TypeOK
<1>1. IInv => TypeOK
  BY DEF IInv
<1> QED BY <1>1, Invariance, PTL

\* Every connection keeps an account of its own, with credentials of its own
\* kind (connect_integration, edit_integration_connection,
\* delete_integration_connection and delete_aws_account).
THEOREM AccountsOwned == Spec => []ConnectionsOwnAccounts
<1>1. IInv => ConnectionsOwnAccounts
  BY DEF IInv
<1> QED BY <1>1, Invariance, PTL

\* The cards from which an AWS account is connected stay, and stay
\* disconnected (_seed_if_empty, delete_integration_connection,
\* uq_integration_aws_template).
THEOREM CardsStay == Spec => []AwsCardsStay
<1>1. IInv => AwsCardsStay
  BY DEF IInv
<1> QED BY <1>1, Invariance, PTL

\* VALID is only ever said of credentials AWS accepts, although the verdict is
\* reached on a copy that may have been replaced
\* (_validate_and_check_permissions_background, revalidate_aws_account,
\* check_account_permissions).
THEOREM VerdictsFit == Spec => []ValidMeansAccepted
<1>1. IInv => ValidMeansAccepted
  BY DEF IInv
<1> QED BY <1>1, Invariance, PTL

-----------------------------------------------------------------------------
(* Requests that do not overlap                                            *)

\* Connections are made and edited one after the other, however many handlers
\* there are and whatever the others do.
WritersApart ==
  \A g, h \in Handlers : task[g].op \in {"connect", "edit"} /\ task[h].op \in {"connect", "edit"} => g = h

\* The account number a handler is about to commit is not that of another
\* connection, and the number it remembers as the old one still is.
NumberFree(t) ==
  t.op \in {"connect", "edit"} /\ t.stage = "read" =>
    /\ OthersWith(t.number, t.row) = {}
    /\ t.row # 0 /\ accounts[t.row] # None => accounts[t.row].number = t.was.number

SerialInv == IInv /\ OneConnectionPerAccount /\ \A h \in Handlers : NumberFree(task[h])

\* A connection has the account with its own id, so that what makes two of
\* them collide can be said of the ids.
LEMMA ConnectionNumbers ==
  ASSUME IInv
  PROVE  /\ \A i \in Connections : i \in Ids /\ conns[i].account = i /\ i <= made /\ accounts[i] # None
         /\ \A n, i : OthersWith(n, i) = {j \in Connections \ {i} : accounts[j].number = n}
         /\ OneConnectionPerAccount <=>
              \A i, j \in Connections : i # j => accounts[i].number # accounts[j].number
<1>1. \A i \in Connections : i \in Ids /\ conns[i].account = i /\ i <= made /\ accounts[i] # None
  BY DEF IInv, IdsFresh, Connections, ConnectionsOwnAccounts
<1> QED BY <1>1 DEF OthersWith, OneConnectionPerAccount

\* A step that makes no connection and gives no account in use a new number.
Quiet ==
  /\ \A i \in Ids : conns'[i] # None => conns[i] # None
  /\ \A a \in Ids : a <= made /\ accounts'[a] # None =>
       accounts[a] # None /\ accounts'[a].number = accounts[a].number

\* Such a step makes no two connections collide, and takes no number.
LEMMA QuietKeeps ==
  ASSUME SerialInv, IInv', Quiet
  PROVE  /\ OneConnectionPerAccount'
         /\ \A h \in Handlers : task'[h] = task[h] => NumberFree(task[h])'
<1>1. Connections' \subseteq Connections
  BY DEF Quiet, Connections
<1>2. \A i \in Connections' : accounts'[i].number = accounts[i].number
  BY <1>1, ConnectionNumbers DEF Quiet, SerialInv, IInv, ConnectionsOwnAccounts, IdsFresh, Connections
<1>3. /\ \A n, i : OthersWith(n, i)' = {j \in Connections' \ {i} : accounts'[j].number = n}
      /\ OneConnectionPerAccount' <=>
           \A i, j \in Connections' : i # j => accounts'[i].number # accounts'[j].number
  <2>1. \A i \in Connections' : conns'[i].account = i /\ accounts'[i] # None
    BY DEF IInv, IdsFresh, Connections, ConnectionsOwnAccounts
  <2> QED BY <2>1 DEF OthersWith, OneConnectionPerAccount
<1>4. OneConnectionPerAccount'
  BY <1>1, <1>2, <1>3, ConnectionNumbers DEF SerialInv
<1>5. ASSUME NEW h \in Handlers, task'[h] = task[h], task[h].op \in {"connect", "edit"},
             task[h].stage = "read", NEW n, n = task[h].number, NEW i, i = task[h].row
      PROVE  /\ OthersWith(n, i)' = {}
             /\ task[h].row # 0 /\ accounts'[task[h].row] # None =>
                  accounts'[task[h].row].number = task[h].was.number
  <2>1. NumberFree(task[h]) /\ WriterSound(task[h])
    BY DEF SerialInv, IInv, TasksSound
  <2>2. OthersWith(n, i) = {}
    BY <1>5, <2>1 DEF NumberFree
  <2>3. OthersWith(n, i)' = {}
    <3>1. OthersWith(n, i) = {j \in Connections \ {i} : accounts[j].number = n}
      BY ConnectionNumbers DEF SerialInv
    <3>2. OthersWith(n, i)' = {j \in Connections' \ {i} : accounts'[j].number = n}
      BY <1>3
    <3> QED BY <1>1, <1>2, <2>2, <3>1, <3>2
  <2>4. task[h].row # 0 => task[h].row \in Ids /\ task[h].row <= made
    BY <1>5, <2>1 DEF WriterSound
  <2> QED BY <1>5, <2>1, <2>3, <2>4 DEF NumberFree, Quiet
<1>6. ASSUME NEW h \in Handlers, task'[h] = task[h] PROVE NumberFree(task[h])'
  <2> DEFINE n == task[h].number
             i == task[h].row
  <2>1. task'[h].op \in {"connect", "edit"} /\ task'[h].stage = "read" => OthersWith(n, i)' = {}
    BY <1>5, <1>6 DEF OthersWith
  <2> QED BY <1>5, <1>6 DEF NumberFree, OthersWith
<1> QED BY <1>4, <1>6

\* What a handler holds after it has looked for other connections.
FoundNone(old, n) == [old EXCEPT !.stage = "read", !.number = n]
FoundOne(old, n, i) ==
  [old EXCEPT !.stage = "read", !.number = n, !.row = i, !.account = conns[i].account,
              !.was = accounts[conns[i].account]]
FoundOwn(old, n) == [old EXCEPT !.stage = "read", !.number = n, !.was = accounts[old.account]]

LEMMA ReadShape ==
  ASSUME IInv, NEW h \in Handlers, NEW n, ConnectRead(h, n) \/ EditRead(h, n)
  PROVE  /\ conns' = conns /\ accounts' = accounts
         /\ \A g \in Handlers \ {h} : task'[g] = task[g]
         /\ \/ /\ task[h].op = "connect" /\ task[h].stage = "start"
               /\ \/ OthersWith(n, 0) = {} /\ task'[h] = FoundNone(task[h], n)
                  \/ \E i \in OthersWith(n, 0) : task'[h] = FoundOne(task[h], n, i)
            \/ /\ task[h].op = "edit" /\ OthersWith(n, task[h].row) = {}
               /\ task'[h] = FoundOwn(task[h], n)
<1>0. task \in [Handlers -> Task]
  BY DEF IInv, TypeOK, Task
<1>1. ASSUME NEW t, task' = [task EXCEPT ![h] = t]
      PROVE  task'[h] = t /\ \A g \in Handlers \ {h} : task'[g] = task[g]
  BY <1>0, <1>1
<1>2. CASE EditRead(h, n)
  <2>1. task' = [task EXCEPT ![h] = FoundOwn(task[h], n)]
    BY <1>2 DEF EditRead, Set, FoundOwn
  <2>2. /\ task[h].op = "edit" /\ OthersWith(n, task[h].row) = {}
        /\ conns' = conns /\ accounts' = accounts
    BY <1>2 DEF EditRead, Set
  <2> QED BY <1>1, <2>1, <2>2
<1>3. CASE ConnectRead(h, n)
  <2> DEFINE old == task[h]
             Goal == /\ \A g \in Handlers \ {h} : task'[g] = task[g]
                     /\ \/ OthersWith(n, 0) = {} /\ task'[h] = FoundNone(old, n)
                        \/ \E i \in OthersWith(n, 0) : task'[h] = FoundOne(old, n, i)
  <2>0. /\ old.op = "connect" /\ old.stage = "start"
        /\ UNCHANGED <<card, conns, accounts, made>>
    BY <1>3, Zenon DEF ConnectRead
  <2>1. old.op = "connect" /\ old.stage = "start" /\ conns' = conns /\ accounts' = accounts
    BY <2>0
  <2>2. ASSUME OthersWith(n, 0) = {}, Set(h, [old EXCEPT !.stage = "read", !.number = n])
        PROVE  Goal
    <3>1. task' = [task EXCEPT ![h] = FoundNone(task[h], n)]
      BY <2>2 DEF Set, FoundNone
    <3> QED BY <1>1, <2>2, <3>1
  <2>3. ASSUME NEW i \in OthersWith(n, 0),
               Set(h, [old EXCEPT !.stage = "read", !.number = n, !.row = i,
                                  !.account = conns[i].account, !.was = accounts[conns[i].account]])
        PROVE  Goal
    <3>1. task' = [task EXCEPT ![h] = FoundOne(task[h], n, i)]
      BY <2>3 DEF Set, FoundOne
    <3> QED BY <1>1, <3>1
  <2>4. Goal
    <3> HIDE DEF Goal
    <3>1. \/ OthersWith(n, 0) = {} /\ Set(h, [old EXCEPT !.stage = "read", !.number = n])
          \/ \E i \in OthersWith(n, 0) :
               Set(h, [old EXCEPT !.stage = "read", !.number = n, !.row = i,
                                  !.account = conns[i].account, !.was = accounts[conns[i].account]])
      BY <1>3, Zenon DEF ConnectRead
    <3> QED BY <2>2, <2>3, <3>1, Zenon
  <2> QED BY <2>1, <2>4
<1> QED BY <1>2, <1>3

\* Every step but the commits of a connection is of that kind, and brings a
\* handler to its commit only by reading.
LEMMA StepsQuiet ==
  ASSUME IInv, [Next]_vars, \A h \in Handlers : ~ConnectNew(h) /\ ~Overwrite(h)
  PROVE  /\ Quiet
         /\ \A g \in Handlers :
              \/ task'[g] = task[g]
              \/ task'[g].op \notin {"connect", "edit"} \/ task'[g].stage = "start"
              \/ \E n \in Resolved(task[g].cred) : ConnectRead(g, n) \/ EditRead(g, n)
<1> USE DEF IInv
<1>0. /\ task \in [Handlers -> Task] /\ accounts \in [Ids -> Account \cup {None}]
      /\ conns \in [Ids -> Row \cup {None}] /\ made \in Nat
  BY IntegrationsAssumption DEF TypeOK, Task
<1>1. ASSUME UNCHANGED <<conns, accounts>> PROVE Quiet
  BY <1>1 DEF Quiet
<1>2. \/ List
      \/ \E k \in Keys : DeleteCard(k)
      \/ \E k \in Singletons : ConnectSingleton(k)
      \/ UNCHANGED vars
      => UNCHANGED <<conns, accounts, task>>
  BY DEF List, DeleteCard, ConnectSingleton, vars
<1>3. ASSUME NEW i \in Ids, DeleteConnection(i) \/ DeleteAccount(i)
      PROVE  Quiet /\ task' = task
  <2>1. \A j \in Ids : conns'[j] # None => conns[j] # None
    BY <1>0, <1>3 DEF DeleteConnection, DeleteAccount
  <2>2. \A a \in Ids : accounts'[a] # None => accounts'[a] = accounts[a]
    BY <1>0, <1>3 DEF DeleteConnection, DeleteAccount
  <2>3. task' = task
    BY <1>3 DEF DeleteConnection, DeleteAccount
  <2> QED BY <2>1, <2>2, <2>3 DEF Quiet
<1>4. ASSUME NEW h \in Handlers, HandlerStep(h)
      PROVE  /\ Quiet
             /\ \A g \in Handlers \ {h} : task'[g] = task[g]
             /\ \/ task'[h].op \notin {"connect", "edit"} \/ task'[h].stage = "start"
                \/ \E n \in Resolved(task[h].cred) : ConnectRead(h, n) \/ EditRead(h, n)
  <2>0. ASSUME NEW t, Set(h, t)
        PROVE  task'[h] = t /\ \A g \in Handlers \ {h} : task'[g] = task[g]
    BY <1>0, <2>0 DEF Set
  <2>1. CASE GiveUp(h)
    BY <1>1, <2>0, <2>1 DEF GiveUp, Idle
  <2>2. ASSUME NEW c \in Creds, ConnectBegin(h, c) \/ \E i \in Ids : EditBegin(h, i, c)
        PROVE  /\ Quiet /\ task'[h].stage = "start"
               /\ \A g \in Handlers \ {h} : task'[g] = task[g]
    <3>1. CASE ConnectBegin(h, c)
      <4> DEFINE t == [Idle EXCEPT !.op = "connect", !.cred = c]
      <4>1. t.stage = "start" /\ Set(h, t) /\ UNCHANGED <<conns, accounts>>
        BY <3>1 DEF Idle, ConnectBegin
      <4> HIDE DEF t
      <4> QED BY <1>1, <2>0, <4>1
    <3>2. ASSUME NEW i \in Ids, EditBegin(h, i, c)
          PROVE  /\ Quiet /\ task'[h].stage = "start"
                 /\ \A g \in Handlers \ {h} : task'[g] = task[g]
      <4> DEFINE t == [Idle EXCEPT !.op = "edit", !.row = i, !.account = conns[i].account, !.cred = c]
      <4>1. t.stage = "start" /\ Set(h, t) /\ UNCHANGED <<conns, accounts>>
        BY <3>2 DEF Idle, EditBegin
      <4> HIDE DEF t
      <4> QED BY <1>1, <2>0, <4>1
    <3> QED BY <2>2, <3>1, <3>2
  <2>3. ASSUME NEW n \in Resolved(task[h].cred), ConnectRead(h, n) \/ EditRead(h, n)
        PROVE  Quiet /\ \A g \in Handlers \ {h} : task'[g] = task[g]
    BY <1>1, <2>3, ReadShape
  <2>4. CASE JudgeCommit(h)
    <3> DEFINE b == task[h].account
    <3>1. PICK s \in Judged(task[h].was.cred) :
            accounts' = [accounts EXCEPT ![b].status = IF s = task[h].was.status THEN @ ELSE s]
      BY <2>4 DEF JudgeCommit
    <3>2. \A a \in Ids : accounts'[a] # None => accounts[a] # None /\ accounts'[a].number = accounts[a].number
      BY <1>0, <2>4, <3>1 DEF JudgeCommit, Account
    <3>3. conns' = conns /\ Set(h, Idle)
      BY <2>4 DEF JudgeCommit
    <3> QED BY <2>0, <3>2, <3>3 DEF Quiet, Idle
  <2>5. ASSUME NEW c \in Creds, NEW n \in Numbers, CreateAccount(h, c, n)
        PROVE  /\ Quiet /\ task'[h].op = "judge"
               /\ \A g \in Handlers \ {h} : task'[g] = task[g]
    <3>1. \A a \in Ids : a <= made => accounts'[a] = accounts[a]
      BY <1>0, <2>5 DEF CreateAccount, Ids
    <3>2. conns' = conns /\ Set(h, [Idle EXCEPT !.op = "judge", !.account = made + 1])
      BY <2>5 DEF CreateAccount
    <3>3. [Idle EXCEPT !.op = "judge", !.account = made + 1].op = "judge"
      BY DEF Idle
    <3> QED BY <2>0, <3>1, <3>2, <3>3 DEF Quiet
  <2>6. CASE JudgeRead(h) \/ \E a \in Ids : Revalidate(h, a)
    <3>1. ASSUME NEW a \in Ids, Revalidate(h, a)
          PROVE  \E t : t.op = "judge" /\ Set(h, t) /\ UNCHANGED <<conns, accounts>>
      <4> DEFINE t == [Idle EXCEPT !.op = "judge", !.stage = "read", !.account = a,
                                   !.was = accounts[a]]
      <4>1. t.op = "judge"
        BY DEF Idle
      <4>2. Set(h, t) /\ UNCHANGED <<conns, accounts>>
        BY <3>1 DEF Revalidate
      <4> HIDE DEF t
      <4> QED BY <4>1, <4>2
    <3>2. ASSUME JudgeRead(h)
          PROVE  \E t : t.op = "judge" /\ Set(h, t) /\ UNCHANGED <<conns, accounts>>
      <4> DEFINE t == [task[h] EXCEPT !.stage = "read", !.was = accounts[task[h].account]]
      <4>1. t.op = "judge"
        BY <1>0, <3>2 DEF JudgeRead, Task
      <4>2. Set(h, t) /\ UNCHANGED <<conns, accounts>>
        BY <3>2 DEF JudgeRead
      <4> HIDE DEF t
      <4> QED BY <4>1, <4>2
    <3>3. PICK t : t.op = "judge" /\ Set(h, t) /\ UNCHANGED <<conns, accounts>>
      BY <2>6, <3>1, <3>2
    <3> QED BY <1>1, <2>0, <3>3
  <2> QED BY <1>4, <2>1, <2>2, <2>3, <2>4, <2>5, <2>6 DEF HandlerStep
<1>5. CASE UNCHANGED <<conns, accounts, task>>
  BY <1>1, <1>5
<1> QED BY <1>2, <1>3, <1>4, <1>5 DEF Next

\* A handler that has looked for other connections of the number found none,
\* or the one whose credentials it rotates.
LEMMA ReadFindsFree ==
  ASSUME SerialInv, NEW h \in Handlers, NEW n \in Resolved(task[h].cred),
         ConnectRead(h, n) \/ EditRead(h, n)
  PROVE  NumberFree(task[h])'
<1> DEFINE old == task[h]
           new == task'[h]
<1>0. old \in Task /\ WriterSound(old) /\ IInv
  BY DEF SerialInv, IInv, TypeOK, Task, TasksSound
<1>1. conns' = conns /\ accounts' = accounts
  BY <1>0, ReadShape
<1>2. \A m, i : OthersWith(m, i)' = OthersWith(m, i)
  BY <1>1 DEF OthersWith, Connections
<1>3. CASE old.op = "connect" /\ old.stage = "start" /\ OthersWith(n, 0) = {}
           /\ new = FoundNone(old, n)
  <2>1. old.row = 0
    BY <1>0, <1>3 DEF WriterSound
  <2>2. new.number = n /\ new.row = 0
    BY <1>0, <1>3, <2>1 DEF Task, FoundNone
  <2> QED BY <1>2, <1>3, <2>2 DEF NumberFree
<1>4. ASSUME NEW i \in OthersWith(n, 0), new = FoundOne(old, n, i)
      PROVE  NumberFree(task[h])'
  <2>1. i \in Connections /\ accounts[i].number = n /\ conns[i].account = i
    BY <1>0, <1>4, ConnectionNumbers
  <2>2. new.number = n /\ new.row = i /\ new.was = accounts[i]
    BY <1>0, <1>4, <2>1 DEF Task, FoundOne
  <2>3. OthersWith(n, i) = {}
    BY <1>0, <2>1, ConnectionNumbers DEF SerialInv
  <2> QED BY <1>1, <1>2, <2>1, <2>2, <2>3 DEF NumberFree
<1>5. CASE old.op = "edit" /\ OthersWith(n, old.row) = {} /\ new = FoundOwn(old, n)
  <2>1. old.account = old.row
    BY <1>0, <1>5 DEF WriterSound
  <2>2. new.number = n /\ new.row = old.row /\ new.was = accounts[old.row]
    BY <1>0, <1>5, <2>1 DEF Task, FoundOwn
  <2> QED BY <1>1, <1>2, <1>5, <2>2 DEF NumberFree
<1> QED BY <1>0, <1>3, <1>4, <1>5, ReadShape

\* Both commits use a number that no other connection has.
LEMMA CommitsFree ==
  ASSUME SerialInv, IInv', NEW h \in Handlers, ConnectNew(h) \/ Overwrite(h)
  PROVE  OneConnectionPerAccount' /\ task'[h] = Idle
<1> DEFINE t == task[h]
<1>0. /\ IInv /\ WriterSound(t) /\ NumberFree(t) /\ made \in Nat
      /\ conns \in [Ids -> Row \cup {None}] /\ accounts \in [Ids -> Account \cup {None}]
      /\ task'[h] = Idle
  BY IntegrationsAssumption DEF SerialInv, IInv, TypeOK, TasksSound, ConnectNew, Overwrite, Set
<1>1. OneConnectionPerAccount' <=>
        \A i, j \in Connections' : i # j => accounts'[i].number # accounts'[j].number
  <2>1. \A i \in Connections' : conns'[i].account = i
    BY DEF IInv, IdsFresh, Connections
  <2> QED BY <2>1 DEF OneConnectionPerAccount
<1>2. ASSUME NEW r \in Ids, accounts'[r].number = t.number,
             OthersWith(t.number, r) = {}, Connections' \subseteq Connections \cup {r},
             \A i \in Connections' \ {r} : accounts'[i] = accounts[i]
      PROVE  OneConnectionPerAccount'
  <2>1. \A i \in Connections \ {r} : accounts[i].number # t.number
    BY <1>0, <1>2, ConnectionNumbers
  <2>2. \A i, j \in Connections : i # j => accounts[i].number # accounts[j].number
    BY <1>0, ConnectionNumbers DEF SerialInv
  <2> QED BY <1>1, <1>2, <2>1, <2>2
<1>3. CASE ConnectNew(h)
  <2> DEFINE n == made + 1
  <2>1. n \in Ids /\ t.row = 0 /\ OthersWith(t.number, 0) = {}
    BY <1>0, <1>3, IntegrationsAssumption DEF ConnectNew, NumberFree, Ids
  <2>2. OthersWith(t.number, n) \subseteq OthersWith(t.number, 0)
    BY DEF OthersWith, Connections, Ids
  <2>3. accounts' = [accounts EXCEPT ![n] = [cred |-> t.cred, number |-> t.number, status |-> "VALID"]]
        /\ conns' = [conns EXCEPT ![n] = [key |-> MethodOf[t.cred], account |-> n]]
    BY <1>3 DEF ConnectNew
  <2> HIDE DEF n, t
  <2>4. Connections' \subseteq Connections \cup {n}
    BY <1>0, <2>3 DEF Connections
  <2>5. accounts'[n].number = t.number /\ \A i \in Ids \ {n} : accounts'[i] = accounts[i]
    BY <1>0, <2>1, <2>3
  <2>6. OthersWith(t.number, n) = {} /\ \A i \in Connections' \ {n} : accounts'[i] = accounts[i]
    BY <2>1, <2>2, <2>5 DEF Connections
  <2>7. OneConnectionPerAccount'
    BY <1>2, <2>1, <2>4, <2>5, <2>6
  <2> QED BY <1>0, <2>7
<1>4. CASE Overwrite(h)
  <2> DEFINE r == t.row
  <2>1. r \in Ids /\ t.account = r /\ r # 0 /\ accounts[r] # None
        /\ OthersWith(t.number, r) = {} /\ accounts[r].number = t.was.number
    BY <1>0, <1>4 DEF Overwrite, WriterSound, NumberFree
  <2>2. conns' = conns
        /\ accounts' = [accounts EXCEPT ![t.account] =
             [cred   |-> t.cred,
              number |-> IF t.number = t.was.number THEN @.number ELSE t.number,
              status |-> IF t.was.status = "VALID" THEN @.status ELSE "VALID"]]
    BY <1>4 DEF Overwrite
  <2> HIDE DEF t, r
  <2>3. accounts'[r].number = t.number /\ \A i \in Ids \ {r} : accounts'[i] = accounts[i]
    BY <1>0, <2>1, <2>2
  <2>4. Connections' = Connections
    BY <2>2 DEF Connections
  <2>5. \A i \in Connections' \ {r} : accounts'[i] = accounts[i]
    BY <2>3 DEF Connections
  <2>6. OneConnectionPerAccount'
    BY <1>2, <2>1, <2>3, <2>4, <2>5
  <2> QED BY <1>0, <2>6
<1> QED BY <1>0, <1>3, <1>4

LEMMA SerialStep == WritersApart /\ SerialInv /\ [Next]_vars => SerialInv'
<1> SUFFICES ASSUME WritersApart, SerialInv, [Next]_vars PROVE SerialInv'
  OBVIOUS
<1>1. IInv' /\ IInv
  BY NextIInv DEF SerialInv
<1>2. ASSUME NEW h \in Handlers, ConnectNew(h) \/ Overwrite(h) PROVE SerialInv'
  <2>1. OneConnectionPerAccount' /\ task'[h] = Idle
    BY <1>1, <1>2, CommitsFree
  <2>2. task[h].op \in {"connect", "edit"}
    BY <1>2 DEF ConnectNew, Overwrite
  <2>3. \A g \in Handlers \ {h} : task'[g] = task[g]
    BY <1>1, <1>2 DEF ConnectNew, Overwrite, Set, IInv, TypeOK
  <2>4. \A g \in Handlers \ {h} : task'[g].op \notin {"connect", "edit"}
    BY <2>2, <2>3 DEF WritersApart
  <2>5. \A g \in Handlers : NumberFree(task[g])'
    BY <2>1, <2>4 DEF NumberFree, Idle
  <2> QED BY <1>1, <2>1, <2>5 DEF SerialInv
<1>3. CASE \A h \in Handlers : ~ConnectNew(h) /\ ~Overwrite(h)
  <2>1. Quiet
    BY <1>1, <1>3, StepsQuiet
  <2>2. OneConnectionPerAccount'
    BY <1>1, <2>1, QuietKeeps
  <2>3. ASSUME NEW g \in Handlers PROVE NumberFree(task[g])'
    <3>1. CASE task'[g] = task[g]
      BY <1>1, <2>1, <3>1, QuietKeeps
    <3>2. CASE task'[g].op \notin {"connect", "edit"} \/ task'[g].stage = "start"
      BY <3>2 DEF NumberFree
    <3>3. CASE \E n \in Resolved(task[g].cred) : ConnectRead(g, n) \/ EditRead(g, n)
      BY <3>3, ReadFindsFree
    <3> QED BY <1>1, <1>3, <3>1, <3>2, <3>3, StepsQuiet
  <2> QED BY <1>1, <2>2, <2>3 DEF SerialInv
<1> QED BY <1>2, <1>3

\* Where connects and edits do not overlap no two connections are for the same AWS
\* account, whatever is connected, rotated, edited, deleted or added under
\* /aws-accounts in between (_find_aws_connection_by_account_number).
THEOREM OnePerAccount == Spec /\ []WritersApart => []OneConnectionPerAccount
<1>1. Init => SerialInv
  <2> SUFFICES ASSUME Init PROVE OneConnectionPerAccount /\ \A h \in Handlers : NumberFree(task[h])
    BY InitIInv DEF SerialInv
  <2>1. Connections = {} /\ \A h \in Handlers : task[h].op = "idle"
    BY DEF Init, Connections, Idle
  <2> QED BY <2>1 DEF OneConnectionPerAccount, NumberFree
<1>2. WritersApart /\ SerialInv /\ [Next]_vars => SerialInv'
  BY SerialStep
<1>3. SerialInv => OneConnectionPerAccount
  BY DEF SerialInv
<1> QED BY <1>1, <1>2, <1>3, PTL DEF Spec
=============================================================================
