------------------------------ MODULE TryChat ------------------------------
(***************************************************************************)
(* Trying a persona in the browser: packages/core/src/try-chat-service.ts  *)
(* over the "Web try-chat" keys of repos.ts and the routes that call it.   *)
(*                                                                         *)
(* A session is a row with a counter and a list of messages, two keys with *)
(* a time to live.  Every request runs on its own, on any node.  A send    *)
(* reads the row at its start and writes its own copy back at its end,     *)
(* with the call of the model in between; the day's quota is a counter of  *)
(* its own, reserved with INCR before that call.  Reads that decide nothing *)
(* together are one step.  What is said, prompts and the filter are left   *)
(* out; an exchange is one entry of the list.                              *)
(***************************************************************************)
EXTENDS Naturals, FiniteSets

CONSTANTS
    Users,
    Tries,          \* session ids, each made once
    TryOwner,       \* [Tries -> Users]: who opens it
    Sends,          \* bound: the messages under way at the same time
    MaxPerDay,      \* maxUserMsgsPerDay
    MaxPerSession,  \* maxUserMsgsPerSession
    MaxHistory,     \* maxHistory, in exchanges
    Days            \* bound: the days that pass

TryChatAssumption ==
    /\ TryOwner \in [Tries -> Users] /\ IsFiniteSet(Sends)
    /\ MaxPerDay \in Nat /\ MaxPerSession \in Nat /\ MaxHistory \in Nat \ {0} /\ Days \in Nat \ {0}

VARIABLES
    tryRow,    \* K.trySession: its msgCount, or Gone
    tryMsgs,   \* K.trySessionMsgs: how many exchanges it holds
    tryDay,    \* K.tryDayCount of each day and user
    today,
    usable,    \* the persona is there, enabled, open to its user and has a prompt
    opening,   \* each session's startSession: "none", "create" or "done"
    ending,    \* sessions between the two DELs of deleteTryChatSession
    sent,      \* the sendMessages under way
    dayAnswers, \* history: answered sends of each day and user
    tryAnswers, \* history: answered sends of each session
    tryMixed,  \* history: sessions of which two requests were under way at once
    closed     \* history: sessions ended by a request

tryVars == <<tryRow, tryMsgs, tryDay, today, usable, opening, ending, sent, dayAnswers, tryAnswers, tryMixed, closed>>

Gone == MaxPerSession + 1   \* no row counts so far
NoSend == [at |-> "none", try |-> "none", count |-> 0, day |-> 0]
Under(s) == {m \in Sends : sent[m].at # "none" /\ sent[m].try = s}

TryInit ==
    /\ tryRow = [s \in Tries |-> Gone]
    /\ tryMsgs = [s \in Tries |-> 0]
    /\ tryDay = [d \in 1..Days |-> [u \in Users |-> 0]]
    /\ today = 1 /\ usable = TRUE
    /\ opening = [s \in Tries |-> "none"]
    /\ ending = {}
    /\ sent = [m \in Sends |-> NoSend]
    /\ dayAnswers = [d \in 1..Days |-> [u \in Users |-> 0]]
    /\ tryAnswers = [s \in Tries |-> 0]
    /\ tryMixed = {} /\ closed = {}

DayLeft(u) == tryDay[today][u] < MaxPerDay
-----------------------------------------------------------------------------
(* startSession: the checks reserve nothing. *)

OpenAsked(s) ==
    /\ opening[s] = "none"
    /\ opening' = [opening EXCEPT ![s] = IF usable /\ DayLeft(TryOwner[s]) THEN "create" ELSE "done"]
    /\ UNCHANGED <<tryRow, tryMsgs, tryDay, today, usable, ending, sent, dayAnswers, tryAnswers, tryMixed, closed>>

OpenMade(s) ==
    /\ opening[s] = "create"
    /\ opening' = [opening EXCEPT ![s] = "done"]
    /\ tryRow' = [tryRow EXCEPT ![s] = 0]
    /\ UNCHANGED <<tryMsgs, tryDay, today, usable, ending, sent, dayAnswers, tryAnswers, tryMixed, closed>>
-----------------------------------------------------------------------------
(* sendMessage *)

Stage(m, at) == sent' = [sent EXCEPT ![m] = IF at = "end" THEN NoSend ELSE [@ EXCEPT !.at = at]]

\* The row, its cap and the day's count are read; a stranger is told it is not there.
SendRead(u, m, s) ==
    /\ sent[m] = NoSend /\ opening[s] = "done"
    /\ tryRow[s] # Gone /\ TryOwner[s] = u
    /\ tryRow[s] < MaxPerSession /\ DayLeft(u)
    /\ sent' = [sent EXCEPT ![m] = [at |-> "check", try |-> s, count |-> tryRow[s], day |-> 0]]
    /\ tryMixed' = IF Under(s) # {} \/ s \in ending THEN tryMixed \cup {s} ELSE tryMixed
    /\ UNCHANGED <<tryRow, tryMsgs, tryDay, today, usable, opening, ending, dayAnswers, tryAnswers, closed>>

\* The persona may have been taken down since the session began.
SendCheck(m) ==
    /\ sent[m].at = "check"
    /\ Stage(m, IF usable THEN "reserve" ELSE "end")
    /\ UNCHANGED <<tryRow, tryMsgs, tryDay, today, usable, opening, ending, dayAnswers, tryAnswers, tryMixed, closed>>

OverdrawnByOne(n) == n > MaxPerDay + 1

\* incrTryChatDayCount: what is reserved is what is judged, so that sends
\* that all saw a free place do not all get it.
Overdrawn(n) == n > MaxPerDay

Reserves(n) == ~Overdrawn(n)

SendReserve(m) ==
    LET u == TryOwner[sent[m].try]  n == tryDay[today][u] + 1
    IN  /\ sent[m].at = "reserve"
        /\ tryDay' = [tryDay EXCEPT ![today][u] = n]
        /\ sent' = [sent EXCEPT ![m] = IF Reserves(n) THEN [@ EXCEPT !.at = "model", !.day = today]
                                       ELSE NoSend]
        /\ UNCHANGED <<tryRow, tryMsgs, today, usable, opening, ending, dayAnswers, tryAnswers, tryMixed, closed>>

\* The model or the graph answers, or fails: the place stays taken.
SendModel(m) ==
    /\ sent[m].at = "model"
    /\ \E at \in {"append", "end"} : Stage(m, at)
    /\ UNCHANGED <<tryRow, tryMsgs, tryDay, today, usable, opening, ending, dayAnswers, tryAnswers, tryMixed, closed>>

\* appendTryChatMessages: one pipeline, whether or not the session is still there.
KeptAll(n) == n
Kept(n) == IF n > MaxHistory THEN MaxHistory ELSE n

SendAppend(m) ==
    LET s == sent[m].try
    IN  /\ sent[m].at = "append"
        /\ Stage(m, "save")
        /\ tryMsgs' = [tryMsgs EXCEPT ![s] = Kept(@ + 1)]
        /\ UNCHANGED <<tryRow, tryDay, today, usable, opening, ending, dayAnswers, tryAnswers, tryMixed, closed>>

\* The row as it was read at the start, its counter one higher.
Counted(c) == c.count + 1

SendSave(m) ==
    LET s == sent[m].try
    IN  /\ sent[m].at = "save"
        /\ Stage(m, "end")
        /\ tryRow' = [tryRow EXCEPT ![s] = Counted(sent[m])]
        /\ dayAnswers' = [dayAnswers EXCEPT ![sent[m].day][TryOwner[s]] = @ + 1]
        /\ tryAnswers' = [tryAnswers EXCEPT ![s] = @ + 1]
        /\ UNCHANGED <<tryMsgs, tryDay, today, usable, opening, ending, tryMixed, closed>>
-----------------------------------------------------------------------------
(* endSession, the times to live, and the world *)

EndRow(u, s) ==
    /\ tryRow[s] # Gone /\ TryOwner[s] = u /\ s \notin ending
    /\ tryRow' = [tryRow EXCEPT ![s] = Gone]
    /\ ending' = ending \cup {s}
    /\ closed' = closed \cup {s}
    /\ tryMixed' = IF Under(s) # {} THEN tryMixed \cup {s} ELSE tryMixed
    /\ UNCHANGED <<tryMsgs, tryDay, today, usable, opening, sent, dayAnswers, tryAnswers>>

EndMsgs(s) ==
    /\ s \in ending
    /\ ending' = ending \ {s}
    /\ tryMsgs' = [tryMsgs EXCEPT ![s] = 0]
    /\ UNCHANGED <<tryRow, tryDay, today, usable, opening, sent, dayAnswers, tryAnswers, tryMixed, closed>>

\* Nothing was sent for the time to live of the two keys.
TryExpires(s) ==
    /\ tryRow[s] # Gone /\ Under(s) = {} /\ s \notin ending
    /\ tryRow' = [tryRow EXCEPT ![s] = Gone]
    /\ tryMsgs' = [tryMsgs EXCEPT ![s] = 0]
    /\ UNCHANGED <<tryDay, today, usable, opening, ending, sent, dayAnswers, tryAnswers, tryMixed, closed>>

Midnight ==
    /\ today < Days
    /\ today' = today + 1
    /\ UNCHANGED <<tryRow, tryMsgs, tryDay, usable, opening, ending, sent, dayAnswers, tryAnswers, tryMixed, closed>>

\* The persona is taken down, or its sharing changes.
TakenDown ==
    /\ usable
    /\ usable' = FALSE
    /\ UNCHANGED <<tryRow, tryMsgs, tryDay, today, opening, ending, sent, dayAnswers, tryAnswers, tryMixed, closed>>

TryNext ==
    \/ \E s \in Tries : OpenAsked(s)
    \/ \E s \in Tries : OpenMade(s)
    \/ \E u \in Users, m \in Sends, s \in Tries : SendRead(u, m, s)
    \/ \E m \in Sends : SendCheck(m)
    \/ \E m \in Sends : SendReserve(m)
    \/ \E m \in Sends : SendModel(m)
    \/ \E m \in Sends : SendAppend(m)
    \/ \E m \in Sends : SendSave(m)
    \/ \E u \in Users, s \in Tries : EndRow(u, s)
    \/ \E s \in Tries : EndMsgs(s)
    \/ \E s \in Tries : TryExpires(s)
    \/ Midnight
    \/ TakenDown

TrySpec == TryInit /\ [][TryNext]_tryVars
-----------------------------------------------------------------------------
\* The stages, counters and lists are what they should be.
TryTypeOK ==
    /\ \A s \in Tries : tryRow[s] \in 0..MaxPerSession \cup {Gone}
    /\ \A s \in Tries : tryMsgs[s] \in 0..MaxHistory
    /\ today \in 1..Days /\ usable \in BOOLEAN
    /\ opening \in [Tries -> {"none", "create", "done"}]
    /\ ending \cup tryMixed \cup closed \subseteq Tries
    /\ \A m \in Sends : sent[m].at \in {"none", "check", "reserve", "model", "append", "save"}
    /\ dayAnswers \in [1..Days -> [Users -> Nat]] /\ tryAnswers \in [Tries -> Nat]

\* The places of a day that sends of a user hold.
Reserved(u, d) ==
    {m \in Sends : /\ sent[m].at \in {"model", "append", "save"}
                   /\ sent[m].day = d /\ TryOwner[sent[m].try] = u}

\* A user has at most MaxPerDay answers a day whatever runs at the same time,
\* over all sessions; and a session whose requests never overlapped has at
\* most MaxPerSession answers and, once ended, is not there again
\* (sendMessage: the counter is reserved first, the row is written back last).
TryCaps ==
    /\ \A u \in Users, d \in 1..Days :
          Cardinality(Reserved(u, d)) + dayAnswers[d][u] <= MaxPerDay
    /\ \A s \in Tries \ tryMixed :
          /\ tryAnswers[s] <= MaxPerSession
          /\ s \in closed => tryRow[s] = Gone /\ (s \in ending \/ tryMsgs[s] = 0)
=============================================================================
