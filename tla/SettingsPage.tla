----------------------------- MODULE SettingsPage -----------------------------
(***************************************************************************)
(* The settings page but for the policies (PolicyTab) and what saving the  *)
(* profile does to the session (Session): its tabs, the messages that      *)
(* float over them, the profile's form, the dialogs that create and edit   *)
(* budgets and alerts, the team, the agent and the manual sync.  All tabs  *)
(* share one message of each kind and one flag that disables every submit  *)
(* button.                                                                 *)
(***************************************************************************)
EXTENDS Integers, FiniteSets, PageRequests

CONSTANTS
  RuleIds,       \* budgets or alerts
  SettingSlots,  \* bound: requests under way at once
  MaxFlash       \* bound: pending timers of a kind of message

SettingTabs == {"profile", "budgets", "alerts", "team", "policy", "daemon", "sync"}
RuleKinds   == {"budgets", "alerts"}
FlashKinds  == {"success", "error"}
SettingCall == [op : {"list", "submit", "profile", "sync", "delete", "member", "scan",
                      "push", "status"},
                kind : SettingTabs, edit : RuleIds \cup {None}, rule : RuleIds \cup {None}]

ASSUME SettingsAssumption == MaxFlash \in Nat /\ None \notin SettingCall

VARIABLES
  settingsTab,   \* activeTab
  settingsAdmin, \* isAdmin
  settingsAt,
  flash,         \* the messages shown
  flashTimers,   \* timers that will hide one of a kind, whichever is shown then
  submitting,    \* loading
  pushing,       \* loadingAgent
  rules,         \* budgets and alerts listed
  dialog,        \* per kind, whether its dialog is open
  editingRule,   \* editingBudget, editingAlert
  ruleForm,      \* the id in budgetForm, alertForm: None for a new one
  settingCalls

settingsVars == <<settingsTab, settingsAdmin, settingsAt, flash, flashTimers, submitting,
                  pushing, rules, dialog, editingRule, ruleForm, settingCalls>>
dialogVars == <<dialog, editingRule, ruleForm>>
flashVars  == <<flash, flashTimers>>

AskSetting(op, kind) == [op |-> op, kind |-> kind, edit |-> None, rule |-> None]

-----------------------------------------------------------------------------
SettingsInit ==
  /\ settingsTab = "profile"
  /\ settingsAdmin \in BOOLEAN
  /\ settingsAt = "shown"
  /\ flash = {} /\ flashTimers = [f \in FlashKinds |-> 0]
  /\ submitting = FALSE /\ pushing = FALSE
  /\ rules = [k \in RuleKinds |-> {}]
  /\ dialog = [k \in RuleKinds |-> FALSE]
  /\ editingRule = [k \in RuleKinds |-> None]
  /\ ruleForm = [k \in RuleKinds |-> None]
  /\ settingCalls = [s \in SettingSlots |-> None]

\* An open dialog covers the page.
OnTab(tabs) == settingsAt = "shown" /\ settingsTab \in tabs /\ \A k \in RuleKinds : ~dialog[k]

\* The effect of a tab asks for what it lists.
ListingOf(tab) == CASE tab \in RuleKinds \cup {"team"} -> "list" [] tab = "daemon" -> "status"
                 [] OTHER -> "nothing"

SelectTab ==
  /\ OnTab(SettingTabs)
  /\ \E t \in SettingTabs \ {settingsTab} :
       /\ settingsTab' = t
       /\ IF ListingOf(t) = "nothing"
            THEN UNCHANGED settingCalls
            ELSE Free(settingCalls) # {} /\ settingCalls' = Send(settingCalls, AskSetting(ListingOf(t), t))
  /\ UNCHANGED <<settingsAdmin, settingsAt, flashVars, submitting, pushing, rules, dialogVars>>

\* showSuccess and showError: nothing stops an older timer.
ShowFlash(f) ==
  /\ flashTimers[f] < MaxFlash
  /\ flash' = flash \cup {f}
  /\ flashTimers' = [flashTimers EXCEPT ![f] = @ + 1]

FlashTimeout ==
  /\ \E f \in FlashKinds :
       /\ flashTimers[f] > 0
       /\ flash' = flash \ {f}
       /\ flashTimers' = [flashTimers EXCEPT ![f] = @ - 1]
  /\ UNCHANGED <<settingsTab, settingsAdmin, settingsAt, submitting, pushing, rules,
                 dialogVars, settingCalls>>

-----------------------------------------------------------------------------
SettingsOther == UNCHANGED <<settingsTab, settingsAdmin, settingsAt, flashVars, pushing, rules>>

OpenRule(k, id) ==
  /\ dialog' = [dialog EXCEPT ![k] = TRUE]
  /\ editingRule' = [editingRule EXCEPT ![k] = id]
  /\ ruleForm' = [ruleForm EXCEPT ![k] = id]
  /\ UNCHANGED <<submitting, settingCalls>> /\ SettingsOther

OpenBudgetEdit   == OnTab({"budgets"}) /\ settingsAdmin /\ \E b \in rules["budgets"] : OpenRule("budgets", b)
OpenBudgetCreate == OnTab({"budgets"}) /\ settingsAdmin /\ OpenRule("budgets", None)
OpenAlertEdit    == OnTab({"alerts"}) /\ \E a \in rules["alerts"] : OpenRule("alerts", a)
OpenAlertCreate  == OnTab({"alerts"}) /\ OpenRule("alerts", None)

\* Slip: closing it also clears the flag of the request it started.
DialogClosedIdle(k) == dialog' = [dialog EXCEPT ![k] = FALSE] /\ submitting' = FALSE

\* Closing a dialog leaves the rule it edited, and a request that runs, alone.
DialogClosed(k) == dialog' = [dialog EXCEPT ![k] = FALSE] /\ UNCHANGED submitting

CloseDialog ==
  /\ settingsAt = "shown"
  /\ \E k \in RuleKinds : dialog[k] /\ DialogClosed(k)
  /\ UNCHANGED <<editingRule, ruleForm, settingCalls>> /\ SettingsOther

\* handleBudgetSubmit and handleAlertSubmit up to their awaits.
SubmitRule(k) ==
  /\ settingsAt = "shown" /\ settingsTab = k /\ dialog[k]
  /\ ~submitting /\ Free(settingCalls) # {}
  /\ submitting' = TRUE
  /\ settingCalls' = Send(settingCalls,
       [op |-> "submit", kind |-> k, edit |-> editingRule[k], rule |-> ruleForm[k]])
  /\ UNCHANGED dialogVars /\ SettingsOther

BudgetSubmit == SubmitRule("budgets")
AlertSubmit  == SubmitRule("alerts")

\* The requests that disable nothing.
AskOnTab(tab, op, allowed) ==
  /\ OnTab({tab}) /\ allowed /\ Free(settingCalls) # {}
  /\ settingCalls' = Send(settingCalls, AskSetting(op, tab))
  /\ UNCHANGED <<submitting, dialogVars>> /\ SettingsOther

DeleteBudget   == AskOnTab("budgets", "delete", settingsAdmin /\ rules["budgets"] # {})
DeleteAlert    == AskOnTab("alerts", "delete", rules["alerts"] # {})
RunAnomalyScan == AskOnTab("alerts", "scan", TRUE)
\* updateMemberRole and deleteTeamMember, offered for everybody else.
ChangeMember   == AskOnTab("team", "member", settingsAdmin)
\* The interval of the daemon tab, which ends with the tab.
PollAgent      == AskOnTab("daemon", "status", TRUE)

\* handleProfileUpdate and the manual sync up to their awaits.
SubmitOnTab(tab) ==
  /\ OnTab({tab}) /\ ~submitting /\ Free(settingCalls) # {}
  /\ submitting' = TRUE
  /\ settingCalls' = Send(settingCalls, AskSetting(tab, tab))
  /\ UNCHANGED dialogVars /\ SettingsOther

UpdateProfile == SubmitOnTab("profile")
TriggerSync   == SubmitOnTab("sync")

\* The two passwords differ: nothing is asked.
PasswordMismatch ==
  /\ OnTab({"profile"}) /\ ~submitting
  /\ ShowFlash("error")
  /\ UNCHANGED <<settingsTab, settingsAdmin, settingsAt, submitting, pushing, rules,
                 dialogVars, settingCalls>>

PushAgent ==
  /\ OnTab({"daemon"}) /\ ~pushing /\ Free(settingCalls) # {}
  /\ pushing' = TRUE
  /\ settingCalls' = Send(settingCalls, AskSetting("push", "daemon"))
  /\ UNCHANGED <<settingsTab, settingsAdmin, settingsAt, flashVars, submitting, rules, dialogVars>>

-----------------------------------------------------------------------------
OpPending(s, ops) == settingCalls[s] # None /\ settingCalls[s].op \in ops
FollowedBy(s, op)  == [settingCalls EXCEPT ![s] = AskSetting(op, settingCalls[s].kind)]

\* Slip: the dialog stays open.
SubmitSucceedsOpen(k) ==
  /\ dialog' = [dialog EXCEPT ![k] = dialog[k]]
  /\ editingRule' = [editingRule EXCEPT ![k] = None]

\* A submission that succeeds closes the dialog of its kind, whichever rule it
\* is open for by now, and lists the rules again.
SubmitSucceeds(k) ==
  /\ dialog' = [dialog EXCEPT ![k] = FALSE]
  /\ editingRule' = [editingRule EXCEPT ![k] = None]

SubmitAnswered(s) ==
  /\ OpPending(s, {"submit"})
  /\ submitting' = FALSE
  /\ \/ /\ ShowFlash("success")
        /\ SubmitSucceeds(settingCalls[s].kind)
        /\ settingCalls' = FollowedBy(s, "list")
     \/ /\ ShowFlash("error")
        /\ settingCalls' = Answered(settingCalls, s)
        /\ UNCHANGED <<dialog, editingRule>>
  /\ UNCHANGED <<settingsTab, settingsAdmin, settingsAt, pushing, rules, ruleForm>>

TabAnswered(s) ==
  /\ OpPending(s, {"profile", "sync"})
  /\ submitting' = FALSE
  /\ \E f \in FlashKinds : ShowFlash(f)
  /\ settingCalls' = Answered(settingCalls, s)
  /\ UNCHANGED <<settingsTab, settingsAdmin, settingsAt, pushing, rules, dialogVars>>

ChangeAnswered(s) ==
  /\ OpPending(s, {"delete", "member", "scan"})
  /\ \/ /\ ShowFlash("success")
        /\ settingCalls' = IF OpPending(s, {"scan"}) THEN Answered(settingCalls, s) ELSE FollowedBy(s, "list")
     \/ ShowFlash("error") /\ settingCalls' = Answered(settingCalls, s)
  /\ UNCHANGED <<settingsTab, settingsAdmin, settingsAt, submitting, pushing, rules, dialogVars>>

PushAnswered(s) ==
  /\ OpPending(s, {"push"})
  /\ pushing' = FALSE
  /\ \/ ShowFlash("success") /\ settingCalls' = FollowedBy(s, "status")
     \/ ShowFlash("error") /\ settingCalls' = Answered(settingCalls, s)
  /\ UNCHANGED <<settingsTab, settingsAdmin, settingsAt, submitting, rules, dialogVars>>

ListAnswered(s) ==
  /\ OpPending(s, {"list", "status"})
  /\ LET k == settingCalls[s].kind IN
       rules' \in {rules} \cup
         IF k \in RuleKinds THEN {[rules EXCEPT ![k] = ids] : ids \in SUBSET RuleIds} ELSE {}
  /\ settingCalls' = Answered(settingCalls, s)
  /\ UNCHANGED <<settingsTab, settingsAdmin, settingsAt, flashVars, submitting, pushing, dialogVars>>

-----------------------------------------------------------------------------
SettingsReset(at) ==
  /\ settingsTab' = "profile" /\ settingsAt' = at
  /\ flash' = {} /\ flashTimers' = [f \in FlashKinds |-> 0]
  /\ submitting' = FALSE /\ pushing' = FALSE
  /\ rules' = [k \in RuleKinds |-> {}]
  /\ dialog' = [k \in RuleKinds |-> FALSE]
  /\ editingRule' = [k \in RuleKinds |-> None] /\ ruleForm' = [k \in RuleKinds |-> None]
  /\ settingCalls' = [s \in SettingSlots |-> None]
  /\ UNCHANGED settingsAdmin

\* The invitation dialog reads teamForm, whose declaration is commented out:
\* rendering it fails and the error page takes over.
OpenTeamModal == OnTab({"team"}) /\ settingsAdmin /\ SettingsReset("failed")

LeaveSettings == settingsAt = "shown" /\ SettingsReset("left")
EnterSettings == settingsAt # "shown" /\ SettingsReset("shown")  \* by a reload if it failed

SettingsNext ==
  \/ SelectTab \/ FlashTimeout
  \/ OpenBudgetEdit \/ OpenBudgetCreate \/ OpenAlertEdit \/ OpenAlertCreate \/ CloseDialog
  \/ BudgetSubmit \/ AlertSubmit \/ DeleteBudget \/ DeleteAlert \/ RunAnomalyScan
  \/ ChangeMember \/ PollAgent \/ UpdateProfile \/ PasswordMismatch \/ TriggerSync \/ PushAgent
  \/ \E s \in SettingSlots : \/ SubmitAnswered(s) \/ TabAnswered(s) \/ ChangeAnswered(s)
                             \/ PushAnswered(s) \/ ListAnswered(s)
  \/ OpenTeamModal \/ LeaveSettings \/ EnterSettings

SettingsSpec == SettingsInit /\ [][SettingsNext]_settingsVars

-----------------------------------------------------------------------------
\* Types of the page's state.
SettingsTypeOK ==
  /\ settingsTab \in SettingTabs /\ settingsAdmin \in BOOLEAN
  /\ settingsAt \in {"shown", "left", "failed"}
  /\ flash \subseteq FlashKinds /\ flashTimers \in [FlashKinds -> 0..MaxFlash]
  /\ submitting \in BOOLEAN /\ pushing \in BOOLEAN
  /\ rules \in [RuleKinds -> SUBSET RuleIds]
  /\ dialog \in [RuleKinds -> BOOLEAN]
  /\ editingRule \in [RuleKinds -> RuleIds \cup {None}]
  /\ ruleForm \in [RuleKinds -> RuleIds \cup {None}]
  /\ settingCalls \in [SettingSlots -> SettingCall \cup {None}]

\* The dialog edits the rule whose values its form holds and creates one only
\* from an empty form, now and in every submission under way, although late
\* answers close dialogs opened after they were asked for.
RuleFormConsistent ==
  /\ \A k \in RuleKinds : dialog[k] => editingRule[k] = ruleForm[k]
  /\ \A s \in SettingSlots : OpPending(s, {"submit"}) => settingCalls[s].edit = settingCalls[s].rule

Submissions == {s \in SettingSlots : OpPending(s, {"submit", "profile", "sync"})}

\* Whatever dialogs are closed and tabs changed meanwhile, one submission runs
\* at a time, and the buttons are disabled exactly as long as it does.
OneSubmission ==
  /\ Cardinality(Submissions) <= 1
  /\ submitting <=> Submissions # {}

\* The agent's button comes back and every message disappears.
SettingsReleases ==
  /\ pushing => \E s \in SettingSlots : OpPending(s, {"push"})
  /\ \A f \in flash : flashTimers[f] > 0
=============================================================================
