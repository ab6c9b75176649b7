---------------------------- MODULE Integrations ----------------------------
(***************************************************************************)
(* The integrations page of one customer: a card per integration, a        *)
(* connection per AWS account, the aws_accounts rows behind them, and the  *)
(* validation of stored credentials.                                       *)
(*                                                                         *)
(* Grain.  A handler that waits for the Steampipe service is cut there:    *)
(* what it read before the wait may be out of date when it commits, and    *)
(* the commit writes the columns the ORM found changed against what it had *)
(* loaded.  Handlers that only use the database are one step.              *)
(***************************************************************************)
EXTENDS Integers

CONSTANTS
  Singletons,  \* integration keys without an AWS account behind them
  Creds,       \* credentials a user may enter
  MethodOf,    \* the integration key credentials are for
  RealOf,      \* the number of the AWS account they belong to
  Works,       \* those that AWS accepts
  Typed,       \* account numbers entered in the form
  Handlers,    \* requests and background tasks in progress at a time
  None,        \* no row
  MaxMade      \* bound: accounts ever created

AwsKeys == {"aws_role", "aws_keys"}
Keys    == AwsKeys \cup Singletons
Ids     == 1..MaxMade
Numbers == Typed \cup {RealOf[c] : c \in Creds}
Verdict == {"PENDING", "VALID", "INVALID"}
Account == [cred : Creds, number : Numbers, status : Verdict]
Row     == [key : AwsKeys, account : Ids]

ASSUME IntegrationsAssumption ==
  /\ AwsKeys \cap Singletons = {}
  /\ MethodOf \in [Creds -> AwsKeys]
  /\ DOMAIN RealOf = Creds
  /\ Works \subseteq Creds
  /\ MaxMade \in Nat
  /\ None \notin Account \cup Row \cup Creds

VARIABLES
  card,      \* per key, the row without an account: absent, off or on
  conns,     \* integration rows with an account, by id
  accounts,  \* aws_accounts rows, by id
  made,      \* ids handed out
  task       \* what each handler does, and what it holds in memory

vars == <<card, conns, accounts, made, task>>

Idle == [op |-> "idle", stage |-> "start", row |-> 0, account |-> 0,
         cred |-> None, number |-> None, was |-> None]

Set(h, t) == task' = [task EXCEPT ![h] = t]

-----------------------------------------------------------------------------
Init ==
  /\ card = [k \in Keys |-> "absent"]
  /\ conns = [i \in Ids |-> None]
  /\ accounts = [a \in Ids |-> None]
  /\ made = 0
  /\ task = [h \in Handlers |-> Idle]

Connections == {i \in Ids : conns[i] # None}

\* _seed_if_empty: only a customer without any row gets the cards.
Seeded ==
  IF Connections = {} /\ \A k \in Keys : card[k] = "absent"
    THEN [k \in Keys |-> "off"]
    ELSE card

\* _get_or_404 finds the key; if it does not, nothing was seeded.
CardFound(k) == Seeded[k] # "absent"

\* Slip: the lookup looks for cross-account roles only.
RolesWith(number, i) ==
  {j \in Connections \ {i} : /\ conns[j].key = "aws_role"
                             /\ accounts[conns[j].account] # None
                             /\ accounts[conns[j].account].number = number}

\* _find_aws_connection_by_account_number, without connection i.
OthersWith(number, i) ==
  {j \in Connections \ {i} : /\ accounts[conns[j].account] # None
                             /\ accounts[conns[j].account].number = number}

List ==
  /\ card' = Seeded
  /\ UNCHANGED <<conns, accounts, made, task>>

\* POST /connect of a provider without accounts.
ConnectSingleton(k) ==
  /\ CardFound(k)
  /\ card' = [Seeded EXCEPT ![k] = "on"]
  /\ UNCHANGED <<conns, accounts, made, task>>

\* Slip: the placeholder of an AWS key can be deleted too.
DeleteAnyCard(k) ==
  /\ card[k] # "absent"
  /\ card' = [card EXCEPT ![k] = "absent"]
  /\ UNCHANGED <<conns, accounts, made, task>>

\* DELETE /connections/{id} of a card.  For an AWS key that is a no-op.
DeleteCard(k) ==
  /\ k \notin AwsKeys /\ card[k] # "absent"
  /\ card' = [card EXCEPT ![k] = "absent"]
  /\ UNCHANGED <<conns, accounts, made, task>>

\* DELETE /connections/{id} of a connected AWS account.
DeleteConnection(i) ==
  /\ conns[i] # None
  /\ conns' = [conns EXCEPT ![i] = None]
  /\ accounts' = [accounts EXCEPT ![conns[i].account] = None]
  /\ UNCHANGED <<card, made, task>>

-----------------------------------------------------------------------------
(* Connect and edit                                                        *)

\* The handler ends: with an error, a refusal, or because its process died.
GiveUp(h) ==
  /\ task[h].op # "idle"
  /\ Set(h, Idle)
  /\ UNCHANGED <<card, conns, accounts, made>>

\* POST /connect of an AWS key, up to asking AWS about the credentials.
ConnectBegin(h, c) ==
  /\ task[h].op = "idle"
  /\ card' = Seeded
  /\ CardFound(MethodOf[c])
  /\ Set(h, [Idle EXCEPT !.op = "connect", !.cred = c])
  /\ UNCHANGED <<conns, accounts, made>>

\* PATCH /connections/{id}, likewise.
EditBegin(h, i, c) ==
  /\ task[h].op = "idle"
  /\ conns[i] # None /\ MethodOf[c] = conns[i].key
  /\ Set(h, [Idle EXCEPT !.op = "edit", !.row = i, !.account = conns[i].account, !.cred = c])
  /\ UNCHANGED <<card, conns, accounts, made>>

\* Slip: the stored status is set to VALID without asking AWS.
AcceptedUnchecked(c) == TRUE
\* validate_account.
Accepted(c) == c \in Works

\* resolve_account_id, or the number in the form when the query fails.
Resolved(c) == {RealOf[c]} \cup Typed

\* After validate_account and resolve_account_id: an account that is
\* connected already is taken for a rotation of its credentials, or refused
\* (409) if the connection found is one of the other key.
ConnectRead(h, number) ==
  LET t == task[h]
      existing == OthersWith(number, 0)
  IN /\ t.op = "connect" /\ t.stage = "start"
     /\ Accepted(t.cred)
     /\ \/ /\ existing = {}
           /\ Set(h, [t EXCEPT !.stage = "read", !.number = number])
        \/ \E i \in existing :
             LET a == conns[i].account
             IN /\ conns[i].key = MethodOf[t.cred]
                /\ Set(h, [t EXCEPT !.stage = "read", !.number = number,
                             !.row = i, !.account = a, !.was = accounts[a]])
     /\ UNCHANGED <<card, conns, accounts, made>>

EditRead(h, number) ==
  LET t == task[h]
  IN /\ t.op = "edit" /\ t.stage = "start"
     /\ Accepted(t.cred)
     /\ OthersWith(number, t.row) = {}
     /\ accounts[t.account] # None
     /\ Set(h, [t EXCEPT !.stage = "read", !.number = number, !.was = accounts[t.account]])
     /\ UNCHANGED <<card, conns, accounts, made>>

ConnectNew(h) ==
  LET t == task[h]
      n == made + 1
  IN /\ t.op = "connect" /\ t.stage = "read" /\ t.row = 0
     /\ made < MaxMade
     /\ made' = n
     /\ accounts' = [accounts EXCEPT ![n] =
          [cred |-> t.cred, number |-> t.number, status |-> "VALID"]]
     /\ conns' = [conns EXCEPT ![n] = [key |-> MethodOf[t.cred], account |-> n]]
     /\ Set(h, Idle)
     /\ UNCHANGED <<card>>

\* The commit of a rotation and of an edit.  Encrypting makes the stored
\* credentials new in any case; the UPDATE of a row that is gone fails.
Overwrite(h) ==
  LET t == task[h]
  IN /\ t.op \in {"connect", "edit"} /\ t.stage = "read" /\ t.row # 0
     /\ conns[t.row] # None /\ accounts[t.account] # None
     /\ accounts' = [accounts EXCEPT ![t.account] =
          [cred   |-> t.cred,
           number |-> IF t.number = t.was.number THEN @.number ELSE t.number,
           status |-> IF t.was.status = "VALID" THEN @.status ELSE "VALID"]]
     /\ Set(h, Idle)
     /\ UNCHANGED <<card, conns, made>>

-----------------------------------------------------------------------------
(* /aws-accounts                                                           *)

\* POST /aws-accounts: the row, and a background task that validates it.
CreateAccount(h, c, number) ==
  /\ task[h].op = "idle" /\ made < MaxMade
  /\ made' = made + 1
  /\ accounts' = [accounts EXCEPT ![made + 1] =
       [cred |-> c, number |-> number, status |-> "PENDING"]]
  /\ Set(h, [Idle EXCEPT !.op = "judge", !.account = made + 1])
  /\ UNCHANGED <<card, conns>>

\* POST /{id}/validate and /{id}/permissions/check.
Revalidate(h, a) ==
  /\ task[h].op = "idle" /\ accounts[a] # None
  /\ Set(h, [Idle EXCEPT !.op = "judge", !.stage = "read", !.account = a, !.was = accounts[a]])
  /\ UNCHANGED <<card, conns, accounts, made>>

JudgeRead(h) ==
  LET t == task[h]
  IN /\ t.op = "judge" /\ t.stage = "start"
     /\ accounts[t.account] # None
     /\ Set(h, [t EXCEPT !.stage = "read", !.was = accounts[t.account]])
     /\ UNCHANGED <<card, conns, accounts, made>>

\* Slip: the verdict of the permission check is stored as it is.
JudgedRaw(c) == IF c \in Works THEN {"VALID", "connection_failed"} ELSE {"connection_failed"}
\* AWS may be out of reach for credentials that work.
Judged(c) == IF c \in Works THEN {"VALID", "INVALID"} ELSE {"INVALID"}

JudgeCommit(h) ==
  LET t == task[h]
  IN /\ t.op = "judge" /\ t.stage = "read"
     /\ accounts[t.account] # None
     /\ \E verdict \in Judged(t.was.cred) :
          accounts' = [accounts EXCEPT ![t.account].status =
            IF verdict = t.was.status THEN @ ELSE verdict]
     /\ Set(h, Idle)
     /\ UNCHANGED <<card, conns, made>>

Users(a) == {i \in Connections : conns[i].account = a}

\* Slip: the foreign key is gone, the index does not hear of the deletion.
DeleteAccountOnly(a) ==
  /\ accounts[a] # None
  /\ accounts' = [accounts EXCEPT ![a] = None]
  /\ UNCHANGED <<card, conns, made, task>>

\* DELETE /aws-accounts/{id}.  ON DELETE SET NULL turns a connection of the
\* account into a row without one, which uq_integration_aws_template refuses
\* while the key has its card: then the deletion fails.
DeleteAccount(a) ==
  /\ accounts[a] # None
  /\ \A i \in Users(a) : card[conns[i].key] = "absent"
  /\ \A i, j \in Users(a) : i # j => conns[i].key # conns[j].key
  /\ accounts' = [accounts EXCEPT ![a] = None]
  /\ card' = [k \in Keys |-> IF \E i \in Users(a) : conns[i].key = k THEN "on" ELSE card[k]]
  /\ conns' = [i \in Ids |-> IF i \in Users(a) THEN None ELSE conns[i]]
  /\ UNCHANGED <<made, task>>

-----------------------------------------------------------------------------
HandlerStep(h) ==
  \/ \E c \in Creds : ConnectBegin(h, c) \/ \E i \in Ids : EditBegin(h, i, c)
  \/ task[h].cred # None /\ \E n \in Resolved(task[h].cred) : ConnectRead(h, n) \/ EditRead(h, n)
  \/ ConnectNew(h)
  \/ Overwrite(h)
  \/ \E c \in Creds, n \in Numbers : CreateAccount(h, c, n)
  \/ \E a \in Ids : Revalidate(h, a)
  \/ JudgeRead(h)
  \/ JudgeCommit(h)
  \/ GiveUp(h)

Next ==
  \/ List
  \/ \E k \in Keys : DeleteCard(k)
  \/ \E k \in Singletons : ConnectSingleton(k)
  \/ \E i \in Ids : DeleteConnection(i) \/ DeleteAccount(i)
  \/ \E h \in Handlers : HandlerStep(h)

Spec == Init /\ [][Next]_vars
-----------------------------------------------------------------------------
(* Properties                                                              *)

\* Every variable has its type.
TypeOK ==
  /\ card \in [Keys -> {"absent", "off", "on"}]
  /\ conns \in [Ids -> Row \cup {None}]
  /\ accounts \in [Ids -> Account \cup {None}]
  /\ made \in 0..MaxMade
  /\ task \in [Handlers ->
       [op : {"idle", "connect", "edit", "judge"}, stage : {"start", "read"},
        row : Ids \cup {0}, account : Ids \cup {0}, cred : Creds \cup {None},
        number : Numbers \cup {None}, was : Account \cup {None}]]

\* Every connection has an aws_accounts row of its own, with credentials of
\* the kind it was connected with, however rotations, edits, deletions and
\* validations overlap.
ConnectionsOwnAccounts ==
  \A i \in Connections :
    LET a == conns[i].account
    IN /\ accounts[a] # None
       /\ MethodOf[accounts[a].cred] = conns[i].key
       /\ Users(a) = {i}

\* Once a customer has any integration row, both AWS keys have their card,
\* not connected: a further AWS account can always be connected.
AwsCardsStay ==
  Connections # {} \/ (\E k \in Keys : card[k] # "absent")
    => \A k \in AwsKeys : card[k] = "off"

\* An account is only called VALID while it stores credentials AWS accepts:
\* a verdict never outlives the credentials it was reached for.
ValidMeansAccepted ==
  \A a \in Ids : accounts[a] # None /\ accounts[a].status = "VALID" => accounts[a].cred \in Works

\* connect_integration: "Only one method may be active per AWS account at a
\* time".  Two connections never have the same account number.
OneConnectionPerAccount ==
  \A i, j \in Connections : i # j =>
    accounts[conns[i].account].number # accounts[conns[j].account].number

\* connect_integration resolves "the real account number straight from AWS",
\* because the typed one "can't be trusted to tell two real accounts apart":
\* connecting credentials replaces only credentials of the same AWS account.
RotationKeepsAccount ==
  [][\A h \in Handlers, a \in Ids :
       /\ task[h].op = "connect" /\ task'[h].op = "idle"
       /\ accounts[a] # None /\ accounts'[a] # None
       => RealOf[accounts'[a].cred] = RealOf[accounts[a].cred]]_vars
=============================================================================
