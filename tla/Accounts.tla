------------------------------ MODULE Accounts ------------------------------
(***************************************************************************)
(* Web accounts, sessions and invite codes (repos.ts "Users" and           *)
(* "Sessions", invite-repos.ts, and the authentication, invite and user    *)
(* routes of routes.ts).  Every await is a step; requests run on any node. *)
(*                                                                         *)
(* Local accounts need an invite code where the node asks for one, except  *)
(* perhaps the very first; a person known to the OAuth provider gets the   *)
(* account of his id.  The registration claims the name, writes the row    *)
(* and only then consumes the code it saw: if the code is gone, it deletes *)
(* what it wrote.  A request may break off at every await, because Redis   *)
(* fails or its process dies.                                              *)
(*                                                                         *)
(* getUser serves a row from a cache of its process for up to 30 seconds,  *)
(* sessions are cached for 45 and the id of the earliest administrator for *)
(* two minutes.  There may be any number of processes and no time passes   *)
(* here, so that what getUser returns is any row the account ever had.     *)
(* Passwords and rate limits are left out.                                 *)
(***************************************************************************)
EXTENDS Naturals, FiniteSets

CONSTANTS
    Locals,      \* ids newId can return for local accounts
    Known,       \* ids of the OAuth provider
    Founder,     \* a local account that may exist at the start
    Names, Codes,
    Jobs,        \* requests in flight at the same time
    MaxOpen,     \* invites one account may have pending
    InviteRequired,   \* what inviteRequiredForLocal is on the nodes
    FirstUserIsAdmin, \* configuration: the first account becomes an administrator
    AdminIds,         \* configuration: names and ids of administrators
    MaxStarts,   \* bound: requests started in all
    No

AccountRows == [name : Names \cup {No}, admin : BOOLEAN, banned : BOOLEAN]

AccountAssumption ==
    /\ Founder \in Locals /\ Locals \cap Known = {} /\ MaxOpen \in Nat /\ MaxStarts \in Nat
    /\ InviteRequired \subseteq BOOLEAN /\ FirstUserIsAdmin \in BOOLEAN
    /\ No \notin Locals \cup Known \cup Names \cup Codes \cup AccountRows

ASSUME AccountsAssumed == AccountAssumption

VARIABLES
    account,     \* K.user
    listedUsers, \* K.usersAll
    nameIndex,   \* K.userByName
    session,     \* ids that have a session key
    sessionIdx,  \* ids whose session is in K.sessionsByUser
    invite,      \* K.invite: code -> inviter
    openInvites, \* K.invitesByUser
    job,         \* the requests under way
    starts,
    copies,      \* the rows each account ever had, which caches may still hold
    admitted,    \* history: the accounts each code let in (No: no code was asked for)
    overlap,     \* history: codes and accounts that two requests held at once, accounts
                 \* about which one decided on an outdated row, or that one left unfinished
    robbed,      \* history: accounts whose name another's request took or deleted
    broken       \* history: accounts that a request left unfinished

accountVars == <<account, listedUsers, nameIndex, session, sessionIdx, invite,
                 openInvites, job, starts, copies, admitted, overlap, robbed, broken>>

Ids == Locals \cup Known
Free == [op |-> "free", at |-> "end", id |-> No, name |-> No, code |-> No,
         row |-> No, flag |-> FALSE, seen |-> {}]
Fresh(name, admin) == [name |-> name, admin |-> admin, banned |-> FALSE]
Pending(c) == invite[c] # No
On(j, at) == job[j].at = at
Taking(c) == {j \in Jobs : job[j].op = "register" /\ job[j].code = c}
Busy(i) == \E j \in Jobs : job[j].id = i
-----------------------------------------------------------------------------
(* An empty store, or one with a founder and an invite.                    *)
AccountInit ==
    \E founded \in BOOLEAN, n \in Names, c \in Codes :
      LET of == IF founded THEN {Founder} ELSE {} IN
      /\ account = [i \in Ids |-> IF i \in of THEN Fresh(n, TRUE) ELSE No]
      /\ listedUsers = of
      /\ nameIndex = [m \in Names |-> IF founded /\ m = n THEN Founder ELSE No]
      /\ session = of /\ sessionIdx = of
      /\ invite = [d \in Codes |-> IF founded /\ d = c THEN Founder ELSE No]
      /\ openInvites = [i \in Ids |-> IF i \in of THEN {c} ELSE {}]
      /\ job = [j \in Jobs |-> Free]
      /\ starts = 0
      /\ copies = [i \in Ids |-> {account[i]} \ {No}]
      /\ admitted = [d \in Codes \cup {No} |-> IF d = No THEN of ELSE {}]
      /\ overlap = {} /\ robbed = {} /\ broken = {}

Users == <<account, listedUsers, nameIndex>>
Sessions == <<session, sessionIdx>>
Invites == <<invite, openInvites>>
History == <<copies, admitted, overlap, robbed, broken>>

\* A request begins, about an account whose row it takes to be `row`.
StartOn(j, row, with) ==
    /\ job[j] = Free /\ starts < MaxStarts
    /\ job' = [job EXCEPT ![j] = with]
    /\ starts' = starts + 1
    /\ overlap' = overlap \cup {i \in {with.id} : Busy(i) \/ row # account[i]} \cup
                  {c \in {with.code} \ {No} : Taking(c) # {}}
    /\ UNCHANGED <<robbed, broken>>
Start(j, with) == StartOn(j, account[with.id], with)
Caches(i, row) == copies' = [copies EXCEPT ![i] = @ \cup {row}]
Set(j, to) == job' = [job EXCEPT ![j] = to] /\ UNCHANGED starts
Go(j, at) == Set(j, IF at = "end" THEN Free ELSE [job[j] EXCEPT !.at = at])

(* POST register: a new id; a code is looked up unless this node asks for  *)
(* none, or the store is empty and its first user the administrator.       *)
New(i) == copies[i] = {} /\ i \notin broken /\ ~Busy(i)
Bootstrap == listedUsers = {} /\ FirstUserIsAdmin /\ AdminIds = {}
Register(j, i, n, c) ==
    /\ New(i)
    /\ \E required \in InviteRequired :
         LET asked == required /\ ~Bootstrap IN
         /\ asked => Pending(c)
         /\ Start(j, [Free EXCEPT !.op = "register", !.at = "claim", !.id = i, !.name = n,
                                  !.code = IF asked THEN c ELSE No])
    /\ UNCHANGED <<Users, Sessions, Invites, copies, admitted>>

(* claimUsername: SET NX, after a second look whether the store is empty.  *)
NameFree(n) == nameIndex[n] = No
Claim(j) ==
    LET q == job[j] IN
    /\ On(j, "claim")
    /\ IF NameFree(q.name)
       THEN /\ nameIndex' = [nameIndex EXCEPT ![q.name] = q.id]
            /\ Set(j, [q EXCEPT !.at = "row", !.flag = Bootstrap \/ {q.id, q.name} \cap AdminIds # {}])
       ELSE Go(j, "end") /\ UNCHANGED nameIndex
    /\ UNCHANGED <<account, listedUsers, Sessions, Invites, History>>

WriteLocal(j) ==
    LET q == job[j] IN
    /\ On(j, "row")
    /\ account' = [account EXCEPT ![q.id] = Fresh(q.name, q.flag)]
    /\ Caches(q.id, Fresh(q.name, q.flag))
    /\ listedUsers' = listedUsers \cup {q.id}
    /\ admitted' = [admitted EXCEPT ![No] = IF q.code = No THEN @ \cup {q.id} ELSE @]
    /\ Go(j, IF q.code = No THEN "session" ELSE "take")
    /\ UNCHANGED <<nameIndex, Sessions, Invites, overlap, robbed, broken>>

(* consumeInviteCode reads the code: gone, the new account is deleted      *)
(* again; still there, the code is deleted, whoever else has read it.      *)
\* Faulty form: the account stays when the code is gone.
TakenAnyway(c) == IF invite[c] = No THEN "session" ELSE "burn"
Taken(c) == IF invite[c] = No THEN "clean" ELSE "burn"
Take(j) ==
    /\ On(j, "take")
    /\ Go(j, Taken(job[j].code))
    /\ UNCHANGED <<Users, Sessions, Invites, History>>

Burn(j) ==
    LET c == job[j].code IN
    /\ On(j, "burn")
    /\ invite' = [invite EXCEPT ![c] = No]
    /\ openInvites' = [i \in Ids |-> openInvites[i] \ {c}]
    /\ admitted' = [admitted EXCEPT ![c] = @ \cup {job[j].id}]
    /\ Go(j, "session")
    /\ UNCHANGED <<Users, Sessions, copies, overlap, robbed, broken>>

(* createAppSession: the key, then the index of the user's sessions.       *)
OpenSession(j) ==
    /\ On(j, "session")
    /\ session' = session \cup {job[j].id}
    /\ Go(j, "index")
    /\ UNCHANGED <<Users, sessionIdx, Invites, History>>

IndexSession(j) ==
    /\ On(j, "index")
    /\ sessionIdx' = sessionIdx \cup {job[j].id}
    /\ Go(j, "end")
    /\ UNCHANGED <<Users, session, Invites, History>>

(* Password login: the row found through the name, and not banned.         *)
Login(j, n) ==
    LET i == nameIndex[n] IN
    /\ i \in Locals
    /\ \E row \in copies[i] :
         /\ ~row.banned
         /\ StartOn(j, row, [Free EXCEPT !.op = "login", !.at = "session", !.id = i])
    /\ UNCHANGED <<Users, Sessions, Invites, copies, admitted>>

(* A request of a banned user's session, or a logout, ends the session.    *)
EndSession(i) ==
    /\ i \in session
    /\ session' = session \ {i} /\ sessionIdx' = sessionIdx \ {i}
    /\ UNCHANGED <<Users, Invites, job, starts, History>>

(* Entries of the index are written as they were found at an earlier look. *)
Reindex(i, new) ==
    /\ nameIndex' = new
    /\ robbed' = robbed \cup {k \in Ids \ {i} : \E n \in Names : nameIndex[n] = k /\ new[n] # k}
    /\ UNCHANGED broken

(* OAuth callback, upsertUser: the row is read, the name resolved against  *)
(* its owner; at a second look the new name is free or not, the old one    *)
(* still the user's or not, and by that row and names are written in one   *)
(* pipeline, whoever has claimed them since.                               *)
OAuth(j, i, n) ==
    LET new == account[i] = No
        row == IF new THEN Fresh(No, Bootstrap) ELSE account[i] IN
    /\ Start(j, [Free EXCEPT !.op = "oauth", !.at = "resolve", !.id = i, !.name = n,
                   !.row = [row EXCEPT !.admin = @ \/ {i, n} \cap AdminIds # {}]])
    /\ UNCHANGED <<Users, Sessions, Invites, copies, admitted>>

Resolve(j) ==
    LET q == job[j]
        name == IF nameIndex[q.name] \in {No, q.id} THEN q.name ELSE q.row.name IN
    /\ On(j, "resolve")
    /\ Set(j, [q EXCEPT !.at = "look", !.name = q.row.name, !.row.name = name])
    /\ UNCHANGED <<Users, Sessions, Invites, History>>

LookAgain(j) ==
    LET q == job[j]
        new == q.row.name IN
    /\ On(j, "look")
    /\ Set(j, [q EXCEPT !.at = "upsert", !.flag = new # No /\ nameIndex[new] \in {No, q.id},
                        !.seen = {n \in {q.name} \ {No, new} : nameIndex[n] = q.id}])
    /\ UNCHANGED <<Users, Sessions, Invites, History>>

Upsert(j) ==
    LET q == job[j] IN
    /\ On(j, "upsert")
    /\ account' = [account EXCEPT ![q.id] = q.row]
    /\ Caches(q.id, q.row)
    /\ listedUsers' = listedUsers \cup {q.id}
    /\ Reindex(q.id, [n \in Names |-> IF n \in q.seen THEN No
                                      ELSE IF q.flag /\ n = q.row.name THEN q.id ELSE nameIndex[n]])
    /\ Go(j, IF q.row.banned THEN "end" ELSE "session")
    /\ UNCHANGED <<Sessions, Invites, admitted, overlap>>

(* Ban, unban, grant and revoke: the row getUser returns is changed, in    *)
(* the cache at once, and written whole; a ban then ends the sessions of   *)
(* the index.  No administrator acts on himself.  That the earliest one is *)
(* out of reach is left out: who he is comes from a cache.                 *)
ActsOn(i) == \E k \in Ids \ {i} : \E row \in copies[k] : row.admin
Judge(j, i, op) ==
    /\ ActsOn(i)
    /\ \E row \in copies[i] :
         LET judged == IF op = "admin" THEN [row EXCEPT !.admin = ~@] ELSE [row EXCEPT !.banned = op = "ban"] IN
         /\ StartOn(j, row, [Free EXCEPT !.op = op, !.at = "judge", !.id = i, !.row = judged])
         /\ Caches(i, judged)
    /\ UNCHANGED <<Users, Sessions, Invites, admitted>>

WriteJudged(j) ==
    LET q == job[j] IN
    /\ On(j, "judge")
    /\ account' = [account EXCEPT ![q.id] = q.row]
    /\ Go(j, IF q.op = "ban" THEN "clean" ELSE "end")
    /\ UNCHANGED <<listedUsers, nameIndex, Sessions, Invites, History>>

(* deleteUserAccount, for an administrator or a registration that failed:  *)
(* sessions, name and codes are looked up, then deleted, the row last.     *)
(* The bots of the user are deleted before (BotAccounts).                  *)
Delete(j, i) ==
    /\ ActsOn(i)
    /\ \E row \in copies[i] :
         Start(j, [Free EXCEPT !.op = "delete", !.at = "clean", !.id = i, !.name = row.name])
    /\ UNCHANGED <<Users, Sessions, Invites, copies, admitted>>

Clean(j) ==
    LET q == job[j] IN
    /\ On(j, "clean")
    /\ Set(j, [q EXCEPT !.at = "drop", !.seen = openInvites[q.id], !.flag = q.id \in sessionIdx,
                        !.name = IF @ # No /\ nameIndex[@] = q.id THEN @ ELSE No])
    /\ UNCHANGED <<Users, Sessions, Invites, History>>

Drop(j) ==
    LET q == job[j] IN
    /\ On(j, "drop")
    /\ session' = IF q.flag THEN session \ {q.id} ELSE session
    /\ sessionIdx' = sessionIdx \ {q.id}
    /\ listedUsers' = IF q.op = "ban" THEN listedUsers ELSE listedUsers \ {q.id}
    /\ Reindex(q.id, [n \in Names |-> IF n = q.name THEN No ELSE nameIndex[n]])
    /\ Go(j, IF q.op = "ban" THEN "end" ELSE "erase")
    /\ UNCHANGED <<account, Invites, copies, admitted, overlap>>

Erase(j) ==
    LET q == job[j] IN
    /\ On(j, "erase")
    /\ invite' = [c \in Codes |-> IF c \in q.seen THEN No ELSE invite[c]]
    /\ openInvites' = [openInvites EXCEPT ![q.id] = {}]
    /\ account' = [account EXCEPT ![q.id] = No]
    /\ sessionIdx' = sessionIdx \ {q.id}
    /\ Go(j, "end")
    /\ UNCHANGED <<listedUsers, nameIndex, session, History>>

(* POST invites, of a session that may be gone but for the cache: the      *)
(* number of open codes is checked, a code that is not in use is set, then *)
(* listed.  The quota of a time window is checked in the same place and    *)
(* the same way.                                                           *)
UnderCap(i) == Cardinality(openInvites[i]) < MaxOpen
Invite(j, i) ==
    /\ \E row \in copies[i] : ~row.banned
    /\ UnderCap(i)
    /\ Start(j, [Free EXCEPT !.op = "invite", !.at = "code", !.id = i])
    /\ UNCHANGED <<Users, Sessions, Invites, copies, admitted>>

NewCode(j, c) ==
    /\ On(j, "code") /\ invite[c] = No /\ admitted[c] = {} /\ Taking(c) = {}
    /\ invite' = [invite EXCEPT ![c] = job[j].id]
    /\ Set(j, [job[j] EXCEPT !.at = "list", !.code = c])
    /\ UNCHANGED <<Users, Sessions, openInvites, History>>

ListCode(j) ==
    /\ On(j, "list")
    /\ openInvites' = [openInvites EXCEPT ![job[j].id] = @ \cup {job[j].code}]
    /\ Go(j, "end")
    /\ UNCHANGED <<Users, Sessions, invite, History>>

(* The inviter revokes a code; a code that expires leaves the list when    *)
(* the list is next read.                                                  *)
Revoke(i, c) ==
    /\ invite[c] = i
    /\ invite' = [invite EXCEPT ![c] = No]
    /\ openInvites' = [openInvites EXCEPT ![i] = @ \ {c}]
    /\ UNCHANGED <<Users, Sessions, job, starts, History>>

Expire(c) ==
    /\ Pending(c)
    /\ invite' = [invite EXCEPT ![c] = No]
    /\ UNCHANGED <<Users, Sessions, openInvites, job, starts, History>>

ListInvites(i) ==
    /\ openInvites' = [openInvites EXCEPT ![i] = {c \in @ : Pending(c)}]
    /\ openInvites' # openInvites
    /\ UNCHANGED <<Users, Sessions, invite, job, starts, History>>

(* Redis fails or the process dies: the request ends where it is, and what *)
(* it has written stays.                                                   *)
Breaks(j) ==
    /\ job[j] # Free
    /\ Go(j, "end")
    /\ overlap' = overlap \cup {job[j].id} /\ broken' = broken \cup {job[j].id}
    /\ UNCHANGED <<Users, Sessions, Invites, copies, admitted, robbed>>

Continue(j) ==
    \/ Claim(j) \/ WriteLocal(j) \/ Take(j) \/ Burn(j) \/ OpenSession(j) \/ IndexSession(j)
    \/ Resolve(j) \/ LookAgain(j) \/ Upsert(j) \/ WriteJudged(j) \/ Clean(j) \/ Drop(j) \/ Erase(j)
    \/ ListCode(j) \/ Breaks(j) \/ \E c \in Codes : NewCode(j, c)

AccountNext ==
    \/ \E j \in Jobs :
         \/ Continue(j)
         \/ \E i \in Locals, n \in Names, c \in Codes : Register(j, i, n, c)
         \/ \E n \in Names : Login(j, n)
         \/ \E i \in Known, n \in Names : OAuth(j, i, n)
         \/ \E i \in Ids : \/ \E op \in {"ban", "unban", "admin"} : Judge(j, i, op)
                           \/ Delete(j, i) \/ Invite(j, i)
    \/ \E i \in Ids : \/ EndSession(i) \/ ListInvites(i)
                      \/ \E c \in Codes : Revoke(i, c)
    \/ \E c \in Codes : Expire(c)

AccountSpec == AccountInit /\ [][AccountNext]_accountVars
-----------------------------------------------------------------------------
(* Type invariant.                                                         *)
AccountTypeOK ==
    /\ \A i \in Ids : account[i] # No => account[i] \in AccountRows
    /\ listedUsers \subseteq Ids /\ session \subseteq Ids /\ sessionIdx \subseteq Ids
    /\ nameIndex \in [Names -> Ids \cup {No}]
    /\ invite \in [Codes -> Ids \cup {No}]
    /\ openInvites \in [Ids -> SUBSET Codes]
    /\ starts \in 0..MaxStarts
    /\ \A i \in Ids : copies[i] \subseteq AccountRows

(* A local account whose registration has ended was let in by a code, or   *)
(* where none was asked for; a code lets in a second account only when     *)
(* registrations overlapped; a registration that was refused leaves        *)
(* neither row nor name behind (routes.ts:826).  An account that was       *)
(* banned or deleted has no session.  Set apart are the accounts that two  *)
(* requests were at, about which one decided on an outdated row of its     *)
(* cache, or that a request left unfinished: the account of a registration *)
(* that breaks off stays, its code unused, and its name may lead nowhere   *)
(* (routes.ts:842, repos.ts:505).                                          *)
LetInByCode ==
    /\ \A i \in Locals \ overlap : account[i] # No /\ ~Busy(i) =>
         \E c \in Codes \cup {No} : i \in admitted[c]
    /\ \A c \in Codes \ overlap : Cardinality(admitted[c]) <= 1
    /\ \A n \in Names : nameIndex[n] \in Locals \ broken =>
         Busy(nameIndex[n]) \/ account[nameIndex[n]] # No
    /\ \A i \in Ids \ overlap : (account[i] = No \/ account[i].banned) /\ ~Busy(i) =>
         i \notin session

(* The name of a local account leads to it, so that its user can log in and *)
(* no two of them have the same name, the deletion of one racing the        *)
(* registration of the other included: the name is claimed atomically and   *)
(* released only by its holder (repos.ts:114).  Set apart are the accounts  *)
(* whose name a request about another account took or deleted, by what it   *)
(* had seen of the index before (repos.ts:463, 475, 137).                   *)
NamesLead ==
    \A i \in Locals \ (overlap \cup robbed) :
      account[i] # No /\ ~Busy(i) => nameIndex[account[i].name] = i

(* What repos.ts:475 says, "only claim the name index if free or already    *)
(* ours", is not so: a name may be claimed between that look and the write. *)
NamesNotStolen == robbed = {}

(* The two together.                                                       *)
AccountsKept == LetInByCode /\ NamesLead
=============================================================================
