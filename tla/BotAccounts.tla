---------------------------- MODULE BotAccounts ----------------------------
(***************************************************************************)
(* The rows of the bots and how they come about: the QR login sessions     *)
(* (bot-login-sessions.ts, bot-login-repos.ts), the writes of a bot's row  *)
(* (repos.ts, "Bots") and the bot routes of routes.ts.                     *)
(*                                                                         *)
(* A login is polled by the process that started it; its view is in Redis  *)
(* so that any node can show or cancel it.  The poller reads the view,     *)
(* asks the iLink service about the code and writes the view back.  A bot  *)
(* is a row, its credentials and its places in two sets; every writer of   *)
(* the row reads it, changes a field and writes it whole.  A call of Redis *)
(* may fail and a process may go down before any of its steps.  Names, the *)
(* proactive settings and the leases (BotFleet) are left out.              *)
(***************************************************************************)
EXTENDS Naturals, FiniteSets

CONSTANTS
    Bots,        \* ids a login makes up (of the millisecond: no two alike)
    Logins,      \* login sessions
    MaxEdits,    \* bound: requests and cursor saves
    MaxCursor,   \* bound: positions of the update cursor
    Absent

VARIABLES
    botRow,     \* K.bot
    creds,      \* bots with K.botCreds
    pollable,   \* K.botsPollable
    listed,     \* K.botsAll, K.botsByOwner
    view,       \* K.botLogin: the status of each login session
    poller,     \* the poll loop of each login, in its process
    heeded,     \* history: logins cancelled while their poller asked nobody
    edit, edits,
    saved,      \* history: the cursor saved last for each bot
    mixed,      \* history: bots two writers were busy with at once
    broken      \* history: bots a writer broke off half way through

botVars == <<botRow, creds, pollable, listed, view, poller, heeded, edit, edits,
             saved, mixed, broken>>
Rows == <<botRow, creds, pollable, listed, saved, broken>>

Edits == 1..MaxEdits
Open == {"wait_scan", "scanned"}
Ended == {"confirmed", "expired", "error", "cancelled"}
NoPoll == [at |-> "off", bot |-> Absent, rebind |-> FALSE, status |-> "wait_scan",
           row |-> Absent, local |-> FALSE, late |-> FALSE]
NoEdit == [op |-> "none", at |-> "end", bot |-> Absent, row |-> Absent, to |-> 0]
BotRows == [active : BOOLEAN, cursor : 0..MaxCursor]

BotAccountsAssumption ==
    /\ Absent \notin Bots \cup Open \cup Ended \cup {"none"} /\ Absent \notin BotRows
    /\ MaxEdits \in Nat /\ MaxCursor \in Nat

BusyWith(b) == \/ \E e \in Edits : edit[e].bot = b
               \/ \E s \in Logins : poller[s].bot = b /\ poller[s].at \in {"write", "list", "creds", "mark"}
-----------------------------------------------------------------------------
BotInit ==
    /\ listed \in SUBSET Bots
    /\ botRow = [b \in Bots |-> IF b \in listed THEN [active |-> TRUE, cursor |-> 0] ELSE Absent]
    /\ creds = listed /\ pollable = listed
    /\ view = [s \in Logins |-> "none"]
    /\ poller = [s \in Logins |-> NoPoll]
    /\ heeded = {}
    /\ edit = [e \in Edits |-> NoEdit] /\ edits = 0
    /\ saved = [b \in Bots |-> 0]
    /\ mixed = {} /\ broken = {}

PollerAt(s, at) == poller[s].at = at
PollTo(s, at) == poller' = [poller EXCEPT ![s].at = at]
NoEdits == UNCHANGED <<edit, edits>>
BreaksOff(b, half) == broken' = IF half THEN broken \cup {b} ELSE broken

(* POST login/start or relogin/start.                                      *)
StartLogin(s, b, rebind) ==
    /\ view[s] = "none"
    /\ IF rebind THEN botRow[b] # Absent
       ELSE botRow[b] = Absent /\ saved[b] = 0 /\ \A t \in Logins : poller[t].bot # b
    /\ poller' = [poller EXCEPT ![s] = [NoPoll EXCEPT !.at = "check", !.bot = b, !.rebind = rebind]]
    /\ view' = [view EXCEPT ![s] = "wait_scan"]
    /\ UNCHANGED <<Rows, heeded, mixed>> /\ NoEdits

(* The top of the loop: past its eight minutes or stopped, the session     *)
(* expires; cancelled or gone in Redis, the loop just ends.                *)
\* Faulty form: only a view that is gone ends the loop.
GoesOnUnlessGone(s) == view[s] # Absent
GoesOn(s) == view[s] \notin {Absent, "cancelled"}
LoopOver(s) == poller[s].late \/ poller[s].local
CheckView(s) ==
    /\ PollerAt(s, "check")
    /\ IF LoopOver(s)
       THEN poller' = [poller EXCEPT ![s].at = "persist", ![s].status = "expired"]
       ELSE poller' = [poller EXCEPT ![s] = IF GoesOn(s) THEN [@ EXCEPT !.at = "ask"] ELSE NoPoll]
    /\ UNCHANGED <<Rows, view, heeded, mixed>> /\ NoEdits

(* A read of the view that fails is caught, and the round goes on to ask.  *)
CheckFails(s) ==
    /\ PollerAt(s, "check") /\ ~LoopOver(s)
    /\ PollTo(s, "ask")
    /\ heeded' = heeded \ {s}
    /\ UNCHANGED <<Rows, view, mixed>> /\ NoEdits

(* getQrcodeStatus and applyStatus; a network error changes nothing.       *)
Answer(s, reply) ==
    /\ PollerAt(s, "ask")
    /\ CASE reply = "token" -> PollTo(s, "load")
         [] reply = "network" -> PollTo(s, "persist")
         [] OTHER -> poller' = [poller EXCEPT ![s].at = "persist", ![s].status = reply]
    /\ UNCHANGED <<Rows, view, heeded, mixed>> /\ NoEdits

(* The code was scanned: finishRebind reads the row (a bot that is gone    *)
(* cannot be bound again) and upsertBotAccount reads it again, one step    *)
(* here, and then writes row, lists, credentials and pollable set.         *)
LoadBot(s) ==
    LET b == poller[s].bot IN
    /\ PollerAt(s, "load")
    /\ IF poller[s].rebind /\ botRow[b] = Absent
       THEN /\ poller' = [poller EXCEPT ![s].at = "persist", ![s].status = "error"]
            /\ UNCHANGED mixed
       ELSE /\ poller' = [poller EXCEPT ![s].at = "write", ![s].row = botRow[b]]
            /\ mixed' = IF BusyWith(b) THEN mixed \cup {b} ELSE mixed
    /\ UNCHANGED <<Rows, view, heeded>> /\ NoEdits

Upserted(row) == IF row = Absent THEN [active |-> TRUE, cursor |-> 0] ELSE row
WriteBot(s) ==
    /\ PollerAt(s, "write")
    /\ botRow' = [botRow EXCEPT ![poller[s].bot] = Upserted(poller[s].row)]
    /\ PollTo(s, "list")
    /\ UNCHANGED <<creds, pollable, listed, saved, view, heeded, mixed, broken>> /\ NoEdits

ListBot(s) ==
    /\ PollerAt(s, "list")
    /\ listed' = listed \cup {poller[s].bot}
    /\ PollTo(s, "creds")
    /\ UNCHANGED <<botRow, creds, pollable, saved, view, heeded, mixed, broken>> /\ NoEdits

SaveCreds(s) ==
    /\ PollerAt(s, "creds")
    /\ creds' = creds \cup {poller[s].bot}
    /\ PollTo(s, "mark")
    /\ UNCHANGED <<botRow, pollable, listed, saved, view, heeded, mixed, broken>> /\ NoEdits

(* The audit entry that follows may still fail, which is an error too.     *)
MarkPollable(s) ==
    /\ PollerAt(s, "mark")
    /\ pollable' = IF Upserted(poller[s].row).active THEN pollable \cup {poller[s].bot} ELSE pollable
    /\ \E result \in {"confirmed", "error"} :
         poller' = [poller EXCEPT ![s].at = "persist", ![s].status = result, ![s].row = Absent]
    /\ UNCHANGED <<botRow, creds, listed, saved, view, heeded, mixed, broken>> /\ NoEdits

(* A call of Redis fails between load and mark: the login ends in an       *)
(* error, and what was written of the bot stays.                           *)
Half(s) == poller[s].at \in {"list", "creds", "mark"}
BotFails(s) ==
    /\ poller[s].at \in {"load", "write"} \/ Half(s)
    /\ poller' = [poller EXCEPT ![s].at = "persist", ![s].status = "error", ![s].row = Absent]
    /\ BreaksOff(poller[s].bot, Half(s))
    /\ UNCHANGED <<botRow, creds, pollable, listed, saved, view, heeded, mixed>> /\ NoEdits

(* The view is written over whatever is there, or the write fails, which   *)
(* is caught; an ended login drops its poller, and so may one that was     *)
(* cancelled here meanwhile.                                               *)
Persist(s) ==
    /\ PollerAt(s, "persist")
    /\ view' \in {view, [view EXCEPT ![s] = poller[s].status]}
    /\ \/ poller[s].status \notin Ended \ {"cancelled"} /\ PollTo(s, "check")
       \/ /\ poller[s].status \in Ended \/ poller[s].local
          /\ poller' = [poller EXCEPT ![s] = NoPoll]
    /\ UNCHANGED <<Rows, heeded, mixed>> /\ NoEdits

(* POST login/:id/cancel, on the poller's node or another: an open view is *)
(* marked cancelled (its read and its write are one step here); the own    *)
(* poller is stopped, but finishes its round.                              *)
Cancel(s, local) ==
    /\ view[s] \in Open
    /\ view' = [view EXCEPT ![s] = "cancelled"]
    /\ poller' = [poller EXCEPT
                    ![s].local = @ \/ (local /\ poller[s].at # "off"),
                    ![s].status = IF local /\ poller[s].at # "persist" THEN "cancelled" ELSE @]
    /\ heeded' = IF PollerAt(s, "check") /\ ~local THEN heeded \cup {s} ELSE heeded
    /\ UNCHANGED <<Rows, mixed>> /\ NoEdits

(* Eight minutes; the process of the poller goes down; the view expires.   *)
Deadline(s) ==
    /\ poller[s].at # "off" /\ ~poller[s].late
    /\ poller' = [poller EXCEPT ![s].late = TRUE]
    /\ UNCHANGED <<Rows, view, heeded, mixed>> /\ NoEdits

PollerDies(s) ==
    /\ ~PollerAt(s, "off")
    /\ poller' = [poller EXCEPT ![s] = NoPoll]
    /\ BreaksOff(poller[s].bot, Half(s))
    /\ UNCHANGED <<botRow, creds, pollable, listed, saved, view, heeded, mixed>> /\ NoEdits

ViewExpires(s) ==
    /\ view[s] \notin {"none", Absent} /\ PollerAt(s, "off")
    /\ view' = [view EXCEPT ![s] = Absent]
    /\ UNCHANGED <<Rows, poller, heeded, mixed>> /\ NoEdits
-----------------------------------------------------------------------------
(* Writers of a row: a rename or a change of the proactive settings, the   *)
(* worker's cursor, an administrator's status, a deletion.  The test for   *)
(* credentials that follows a status is one step with its write.           *)
Begin(op, b, row, to) ==
    /\ edits < MaxEdits /\ botRow[b] # Absent
    /\ edits' = edits + 1
    /\ edit' = [edit EXCEPT ![edits'] = [op |-> op, bot |-> b, row |-> row, to |-> to,
                                         at |-> IF op = "delete" THEN "unmark" ELSE "write"]]
    /\ mixed' = IF BusyWith(b) THEN mixed \cup {b} ELSE mixed
    /\ UNCHANGED <<Rows, view, poller, heeded>>

Rename(b) == Begin("rename", b, botRow[b], 0)
SaveCursor(b) ==
    /\ saved[b] < MaxCursor /\ b \in pollable /\ \A f \in Edits : edit[f].op # "cursor"
    /\ Begin("cursor", b, [botRow[b] EXCEPT !.cursor = saved[b] + 1], saved[b] + 1)
SetStatus(b, active) == Begin("status", b, [botRow[b] EXCEPT !.active = active], 0)
DeleteBot(b) == Begin("delete", b, botRow[b], 0)

EditAt(e, at) == edit[e].at = at
EditTo(e, at) == /\ edit' = [edit EXCEPT ![e] = IF at = "end" THEN NoEdit ELSE [@ EXCEPT !.at = at]]
                 /\ UNCHANGED <<edits, view, poller, heeded, mixed>>

WriteRow(e) ==
    LET q == edit[e] IN
    /\ EditAt(e, "write")
    /\ botRow' = [botRow EXCEPT ![q.bot] = q.row]
    /\ saved' = IF q.op = "cursor" THEN [saved EXCEPT ![q.bot] = q.to] ELSE saved
    /\ EditTo(e, IF q.op # "status" THEN "end"
                 ELSE IF q.row.active /\ q.bot \in creds THEN "mark" ELSE "unmark")
    /\ UNCHANGED <<creds, pollable, listed, broken>>

Mark(e) ==
    /\ EditAt(e, "mark")
    /\ pollable' = pollable \cup {edit[e].bot}
    /\ EditTo(e, "end")
    /\ UNCHANGED <<botRow, creds, listed, saved, broken>>

Unmark(e) ==
    /\ EditAt(e, "unmark")
    /\ pollable' = pollable \ {edit[e].bot}
    /\ EditTo(e, IF edit[e].op = "delete" THEN "row" ELSE "end")
    /\ UNCHANGED <<botRow, creds, listed, saved, broken>>

DropRow(e) ==
    /\ EditAt(e, "row")
    /\ botRow' = [botRow EXCEPT ![edit[e].bot] = Absent]
    /\ EditTo(e, "creds")
    /\ UNCHANGED <<creds, pollable, listed, saved, broken>>

DropCreds(e) ==
    /\ EditAt(e, "creds")
    /\ creds' = creds \ {edit[e].bot}
    /\ EditTo(e, "unlist")
    /\ UNCHANGED <<botRow, pollable, listed, saved, broken>>

Unlist(e) ==
    /\ EditAt(e, "unlist")
    /\ listed' = listed \ {edit[e].bot}
    /\ EditTo(e, "end")
    /\ UNCHANGED <<botRow, creds, pollable, saved, broken>>

(* A call of the request fails, or its process goes down.                  *)
EditDies(e) ==
    /\ ~EditAt(e, "end")
    /\ BreaksOff(edit[e].bot, \/ edit[e].at \in {"mark", "row", "creds", "unlist"}
                              \/ EditAt(e, "unmark") /\ edit[e].op = "status")
    /\ EditTo(e, "end")
    /\ UNCHANGED <<botRow, creds, pollable, listed, saved>>

PollStep(s) ==
    \/ CheckView(s) \/ CheckFails(s) \/ BotFails(s) \/ LoadBot(s) \/ WriteBot(s) \/ ListBot(s) \/ SaveCreds(s)
    \/ MarkPollable(s) \/ Persist(s)
    \/ \E reply \in {"wait_scan", "scanned", "expired", "error", "network", "token"} : Answer(s, reply)
EditStep(e) ==
    WriteRow(e) \/ Mark(e) \/ Unmark(e) \/ DropRow(e) \/ DropCreds(e) \/ Unlist(e) \/ EditDies(e)

BotNext ==
    \/ \E s \in Logins :
         \/ PollStep(s) \/ Deadline(s) \/ PollerDies(s) \/ ViewExpires(s)
         \/ \E b \in Bots, rebind \in BOOLEAN : StartLogin(s, b, rebind)
         \/ \E local \in BOOLEAN : Cancel(s, local)
    \/ \E e \in Edits : EditStep(e)
    \/ \E b \in Bots : \/ Rename(b) \/ SaveCursor(b) \/ DeleteBot(b)
                       \/ \E on \in BOOLEAN : SetStatus(b, on)

(* The loop runs on, the clock too, and Redis lets keys expire.            *)
LoginFairness == \A s \in Logins :
    WF_botVars(PollStep(s)) /\ WF_botVars(Deadline(s)) /\ WF_botVars(ViewExpires(s))
BotSpec == BotInit /\ [][BotNext]_botVars /\ LoginFairness
-----------------------------------------------------------------------------
(* Type invariant.                                                         *)
BotTypeOK ==
    /\ botRow \in [Bots -> BotRows \cup {Absent}]
    /\ creds \subseteq Bots /\ pollable \subseteq Bots /\ listed \subseteq Bots
    /\ view \in [Logins -> Open \cup Ended \cup {"none", Absent}]
    /\ heeded \subseteq Logins /\ mixed \subseteq Bots /\ broken \subseteq Bots
    /\ saved \in [Bots -> 0..MaxCursor] /\ edits \in 0..MaxEdits
    /\ \A s \in Logins : poller[s].row \in BotRows \cup {Absent}

(* A login cancelled from another node while its poller was not asking the *)
(* service stays cancelled until the view expires, and its poller never    *)
(* gets as far as to write a bot (bot-login-sessions.ts:205), unless Redis *)
(* refuses the poller its look at the view (line 214).                     *)
CancelIsFinal ==
    \A s \in heeded : /\ view[s] \in {"cancelled", "expired", Absent}
                      /\ poller[s].at \in {"off", "check", "persist"}

(* Where no two writers were at a bot at once, when nobody is at it: a     *)
(* worker polls no bot without a row and credentials, credentials are      *)
(* listed, and binding a bot again, renaming or switching it never moves   *)
(* its cursor (repos.ts:1072), whatever failed or went down half way; and  *)
(* row, credentials, lists and pollable set agree unless a writer broke    *)
(* off between two of its writes.                                          *)
RowsSafe(b) ==
    /\ b \in pollable => botRow[b] # Absent /\ b \in creds
    /\ b \in creds => b \in listed
    /\ botRow[b] # Absent => botRow[b].cursor = saved[b]
RowsWhole(b) ==
    /\ botRow[b] = Absent <=> b \notin listed
    /\ botRow[b] = Absent <=> b \notin creds
    /\ b \in pollable <=> botRow[b] # Absent /\ botRow[b].active
RowsAgree ==
    \A b \in Bots \ mixed : ~BusyWith(b) =>
      /\ RowsSafe(b)
      /\ b \notin broken => RowsWhole(b)

(* The two together.                                                       *)
BotsAgree == CancelIsFinal /\ RowsAgree

(* A login comes to an end that its owner can see, or its view expires.    *)
LoginEnds == \A s \in Logins : []<>(view[s] \notin Open)
=============================================================================
