-------------------------------- MODULE P2P --------------------------------
(***************************************************************************)
(* Conversations between two chat peers through their bots:                *)
(* packages/core/src/p2p-service.ts over packages/db/src/p2p-repos.ts.     *)
(*                                                                         *)
(* A request is a row and two pointers, connectFrom of the peer that asks  *)
(* and connectTo of the peer that is asked; a session is a row and a       *)
(* pointer p2pPeer of each party.  All are separate keys with a time to    *)
(* live, read and written by separate commands.  The commands of one peer  *)
(* are handled one after the other by the process that polls its bot;      *)
(* those of different peers, and the block list of the web pages, run at   *)
(* the same time.  Each action is one await.                               *)
(*                                                                         *)
(* A user is identified with the peer it is bound to.  Binding and         *)
(* unbinding end what the peer has under way exactly as Block does.        *)
(* Commands that one Promise.all sends together are one step when they     *)
(* only read.  The daily limit of requests is left out.                    *)
(***************************************************************************)
EXTENDS Naturals, FiniteSets

CONSTANTS
    Peer,         \* bot and peer id
    Web,          \* the handler of HTTP requests
    MaxRequests,  \* bound: requests ever created
    MaxEvents,    \* bound: commands given and keys expired
    MaxBusy,      \* bound: commands handled at the same time
    None

ASSUME P2PConstants ==
    /\ Web \notin Peer /\ None \notin Nat \cup Peer \cup (Peer \X Peer)
    /\ MaxRequests \in Nat \ {0} /\ MaxEvents \in Nat /\ MaxBusy \in Nat

Id == 1..MaxRequests      \* request ids; a session has that of its request
Handler == Peer \cup {Web}

VARIABLES
    from, to,   \* connectFrom and connectTo keys
    sess,       \* p2pPeer keys
    open, live, \* ids whose connectReq row, whose p2pSession row exists
    party,      \* whom a request is from and to
    blocks,     \* block sets: <<p, q>> when p has blocked q
    cmd,        \* the command each handler is at
    accepted,   \* requests that were accepted (history)
    barred,     \* blocks whose handling is complete (history)
    mixed,      \* peers whose commands overlapped others that concern them, or the moment
                \* in which the keys of a request of theirs expire one by one (history)
    events      \* commands and expiries still possible (bound)

keys == <<from, to, sess, open, live>>
vars == <<keys, party, blocks, cmd, accepted, barred, mixed, events>>

Ends(r) == {party[r][1], party[r][2]}
Used == {r \in Id : party[r] # None}

\* at: the next await; key: what is being looked up, and of whom;
\* id: the request or session found; req: the request being accepted.
Nothing == [op |-> "none", at |-> "done", me |-> None, with |-> None, key |-> "sess", of |-> None,
            id |-> None, req |-> None, old |-> {}, barred |-> {}]

Busy(h) == cmd[h].op # "none"

-----------------------------------------------------------------------------
(* Which peers a command concerns (history) *)

Scope(c) ==
    IF c.op = "none" THEN {}
    ELSE ({c.me, c.with, c.of} \ {None})
         \cup UNION {Ends(r) : r \in {c.id, c.req} \cap Used}

\* Requests that are half gone: the pointer from has expired, another key is left.
Fading == {r \in Used : /\ from[party[r][1]] # r
                        /\ to[party[r][2]] = r \/ r \in open}

\* Commands that concern a peer of another command, a peer that is mixed, or one of
\* the parties of requests R, whose keys are expiring.
Mixed(c, R) ==
    LET concerned == [h \in Handler |-> Scope(c[h])]
        clash(h) == \/ concerned[h] \cap mixed # {}
                    \/ \E g \in Handler \ {h} : concerned[g] \cap concerned[h] # {}
                    \/ \E r \in R : Ends(r) \cap concerned[h] # {}
    IN  mixed \cup UNION {concerned[h] : h \in {h \in Handler : clash(h)}}

Become(c) == cmd' = c /\ mixed' = Mixed(c, Fading)

\* Handler h goes on with c; a block is complete when its command ends.
Go(h, c) ==
    /\ Become([cmd EXCEPT ![h] = IF c.at = "done" THEN Nothing ELSE c])
    /\ barred' = IF c.op = "block" /\ c.at = "done" THEN barred \cup ({<<c.me, c.with>>} \cap blocks) ELSE barred
    /\ UNCHANGED events

To(c, at) == [c EXCEPT !.at = at]

Lookup(c, key, p) == [c EXCEPT !.at = "pointer", !.key = key, !.of = p]

-----------------------------------------------------------------------------
(* Getting a request or session: the pointer, its row, and the pointer is  *)
(* deleted when there is no row.                                            *)

Pointer(key, p) ==
    CASE key = "sess" -> sess[p] [] key = "out" -> from[p] [] key = "in" -> to[p]

Rows(key) == IF key = "sess" THEN live ELSE open

\* Block and the like end a session, an outgoing and an incoming request of
\* one peer, then of the other.
EndNext(c) ==
    CASE c.key = "sess" -> Lookup(c, "out", c.of)
      [] c.key = "out" -> Lookup(c, "in", c.of)
      [] c.key = "in" -> IF c.of = c.me THEN Lookup(c, "sess", c.with) ELSE To(c, "done")

\* acceptConnectRequest looks for sessions of both sides, then deletes them.
AcceptNext(c) ==
    IF c.of = party[c.req][1] THEN Lookup(c, "sess", party[c.req][2]) ELSE To(c, "kill")

Found(c) ==
    CASE c.op = "at" -> To(c, "done")
      [] c.op = "accept" -> To(c, "blocked")
      [] c.op = "accepting" /\ c.key = "in" ->
            To([c EXCEPT !.req = c.id], IF party[c.id][2] = c.me THEN "delete" ELSE "done")
      [] c.op = "accepting" /\ c.key = "sess" -> AcceptNext([c EXCEPT !.old = @ \cup {c.id}])
      [] c.op \in {"reject", "cancel"} -> To(c, "delete")
      [] c.op = "disconnect" -> To(c, "kill")
      [] c.op = "relay" -> To(c, IF c.me \in Ends(c.id) THEN "touch" ELSE "kill")
      [] c.op = "block" -> To(c, IF c.key = "sess" THEN "kill" ELSE "delete")

Missing(c) ==
    CASE c.op = "at" /\ c.key = "sess" -> Lookup(c, "out", c.me)
      [] c.op = "at" /\ c.key = "out" -> Lookup(c, "in", c.me)
      [] c.op = "at" /\ c.key = "in" -> To(c, "blocked")
      [] c.op = "accept" -> Lookup([c EXCEPT !.op = "accepting"], "in", c.me)
      [] c.op = "accepting" /\ c.key = "sess" -> AcceptNext(c)
      [] c.op = "block" -> EndNext(c)
      [] OTHER -> To(c, "done")

ReadPointer(h) ==
    LET c == cmd[h]
        r == Pointer(c.key, c.of)
    IN  /\ c.at = "pointer"
        /\ Go(h, IF r = None THEN Missing([c EXCEPT !.id = None]) ELSE To([c EXCEPT !.id = r], "row"))
        /\ UNCHANGED <<keys, party, blocks, accepted>>

ReadRow(h) ==
    LET c == cmd[h]
    IN  /\ c.at = "row"
        /\ Go(h, IF c.id \in Rows(c.key) THEN Found(c) ELSE To(c, "drop"))
        /\ UNCHANGED <<keys, party, blocks, accepted>>

DropPointer(h) ==
    LET c == cmd[h]
        without(k, p) == [k EXCEPT ![p] = None]
    IN  /\ c.at = "drop"
        /\ Go(h, Missing([c EXCEPT !.id = None]))
        /\ sess' = IF c.key = "sess" THEN without(sess, c.of) ELSE sess
        /\ from' = IF c.key = "out" THEN without(from, c.of) ELSE from
        /\ to' = IF c.key = "in" THEN without(to, c.of) ELSE to
        /\ UNCHANGED <<open, live, party, blocks, accepted>>

\* deleteConnectRequest and deleteP2PSession: one DEL of the row and of both
\* pointers, whatever the pointers hold.
Erase(pointer, S) == [p \in Peer |-> IF p \in S THEN None ELSE pointer[p]]

\* Faulty: the peer that was asked stays busy.
DeleteRequestOneSide(h) ==
    LET c == cmd[h]
    IN  /\ c.at = "delete"
        /\ from' = Erase(from, {party[c.id][1]})
        /\ open' = open \ {c.id}
        /\ accepted' = IF c.op = "accepting" THEN accepted \cup {c.id} ELSE accepted
        /\ Go(h, CASE c.op = "accepting" -> Lookup(c, "sess", party[c.id][1])
                   [] c.op = "block" -> EndNext(c)
                   [] OTHER -> To(c, "done"))
        /\ UNCHANGED <<to, sess, live, party, blocks>>

DeleteRequest(h) ==
    LET c == cmd[h]
    IN  /\ c.at = "delete"
        /\ from' = Erase(from, {party[c.id][1]})
        /\ to' = Erase(to, {party[c.id][2]})
        /\ open' = open \ {c.id}
        /\ accepted' = IF c.op = "accepting" THEN accepted \cup {c.id} ELSE accepted
        /\ Go(h, CASE c.op = "accepting" -> Lookup(c, "sess", party[c.id][1])
                   [] c.op = "block" -> EndNext(c)
                   [] OTHER -> To(c, "done"))
        /\ UNCHANGED <<sess, live, party, blocks>>

\* Accepting deletes every session it found, one after the other.
DeleteSession(h) ==
    LET c == cmd[h]
    IN  /\ c.at = "kill"
        /\ IF c.op = "accepting"
           THEN IF c.old = {} THEN /\ Go(h, To(c, "save"))
                                   /\ UNCHANGED <<sess, live>>
                ELSE \E r \in c.old :
                        /\ sess' = Erase(sess, Ends(r))
                        /\ live' = live \ {r}
                        /\ Go(h, [c EXCEPT !.old = @ \ {r}])
           ELSE /\ sess' = Erase(sess, Ends(c.id))
                /\ live' = live \ {c.id}
                /\ Go(h, IF c.op = "block" THEN EndNext(c) ELSE To(c, "done"))
        /\ UNCHANGED <<from, to, open, party, blocks, accepted>>

-----------------------------------------------------------------------------
(* @username *)

\* Faulty: only the block list of the peer that asks counts.
BlockedByFirst(p, q) == <<p, q>> \in blocks

BlockedEitherWay(p, q) == <<p, q>> \in blocks \/ <<q, p>> \in blocks

\* isBlockedEitherWay, before a request is made and before one is accepted.
CheckBlocked(h) ==
    LET c == cmd[h]
    IN  /\ c.at = "blocked"
        /\ Go(h, IF c.op = "at"
                 THEN To(c, IF BlockedEitherWay(c.me, c.with) THEN "done" ELSE "check")
                 ELSE IF BlockedEitherWay(c.me, party[c.id][1])
                      THEN To(c, "delete")
                      ELSE Lookup([c EXCEPT !.op = "accepting", !.id = None], "in", c.me))
        /\ UNCHANGED <<keys, party, blocks, accepted>>

PeerBusy(p) == from[p] # None \/ to[p] # None \/ sess[p] # None

\* Faulty: the id of something that has ended is used again.
CheckFreeReused(h) ==
    LET c == cmd[h]
    IN  /\ c.at = "check"
        /\ IF PeerBusy(c.me) \/ PeerBusy(c.with)
           THEN Go(h, To(c, "done")) /\ UNCHANGED party
           ELSE \E r \in Id :
                   /\ r \notin open \cup live
                   /\ party' = [party EXCEPT ![r] = <<c.me, c.with>>]
                   /\ Go(h, To([c EXCEPT !.id = r], "from"))
        /\ UNCHANGED <<keys, blocks, accepted>>

\* createConnectRequest: six pointers are read, then a row is made up.
CheckFree(h) ==
    LET c == cmd[h]
    IN  /\ c.at = "check"
        /\ IF PeerBusy(c.me) \/ PeerBusy(c.with)
           THEN Go(h, To(c, "done")) /\ UNCHANGED party
           ELSE \E r \in Id :
                   /\ r \notin Used /\ \A s \in Id \ Used : r <= s
                   /\ party' = [party EXCEPT ![r] = <<c.me, c.with>>]
                   /\ Go(h, To([c EXCEPT !.id = r], "from"))
        /\ UNCHANGED <<keys, blocks, accepted>>

\* SET NX.
SetFrom(h) ==
    LET c == cmd[h]
    IN  /\ c.at = "from"
        /\ IF from[c.me] = None
           THEN from' = [from EXCEPT ![c.me] = c.id] /\ Go(h, To(c, "to"))
           ELSE UNCHANGED from /\ Go(h, To(c, "done"))
        /\ UNCHANGED <<to, sess, open, live, party, blocks, accepted>>

SetTo(h) ==
    LET c == cmd[h]
    IN  /\ c.at = "to"
        /\ IF to[c.with] = None
           THEN to' = [to EXCEPT ![c.with] = c.id] /\ Go(h, To(c, "request"))
           ELSE UNCHANGED to /\ Go(h, To(c, "undo"))
        /\ UNCHANGED <<from, sess, open, live, party, blocks, accepted>>

UndoFrom(h) ==
    /\ cmd[h].at = "undo"
    /\ from' = Erase(from, {cmd[h].me})
    /\ Go(h, To(cmd[h], "done"))
    /\ UNCHANGED <<to, sess, open, live, party, blocks, accepted>>

SaveRequest(h) ==
    /\ cmd[h].at = "request"
    /\ open' = open \cup {cmd[h].id}
    /\ Go(h, To(cmd[h], "done"))
    /\ UNCHANGED <<from, to, sess, live, party, blocks, accepted>>

-----------------------------------------------------------------------------
(* Sessions *)

\* Faulty: the row is saved under what was looked up last.
SaveSessionFound(h) ==
    /\ cmd[h].at = "save"
    /\ live' = live \cup {cmd[h].id}
    /\ Go(h, To(cmd[h], "first"))
    /\ UNCHANGED <<from, to, sess, open, party, blocks, accepted>>

\* createP2PSession: the row, then the pointers.
SaveSession(h) ==
    /\ cmd[h].at = "save"
    /\ live' = live \cup {cmd[h].req}
    /\ Go(h, To(cmd[h], "first"))
    /\ UNCHANGED <<from, to, sess, open, party, blocks, accepted>>

SetPointer(h) ==
    LET c == cmd[h]
    IN  /\ \/ /\ c.at = "first"
              /\ sess' = [sess EXCEPT ![party[c.req][1]] = c.req]
              /\ Go(h, To(c, "second"))
           \/ /\ c.at = "second"
              /\ sess' = [sess EXCEPT ![party[c.req][2]] = c.req]
              /\ Go(h, To(c, "done"))
        /\ UNCHANGED <<from, to, open, live, party, blocks, accepted>>

\* touchP2PSession: row and pointers are written again, in one pipeline; then
\* the message is sent.
Touch(h) ==
    LET r == cmd[h].id
    IN  /\ cmd[h].at = "touch"
        /\ live' = live \cup {r}
        /\ sess' = [p \in Peer |-> IF p \in Ends(r) THEN r ELSE sess[p]]
        /\ Go(h, To(cmd[h], "done"))
        /\ UNCHANGED <<from, to, open, party, blocks, accepted>>

-----------------------------------------------------------------------------
(* Block list *)

AddBlock(h) ==
    LET c == cmd[h]
    IN  /\ c.at = "sadd"
        /\ blocks' = blocks \cup {<<c.me, c.with>>}
        /\ Go(h, Lookup(c, "sess", c.me))
        /\ UNCHANGED <<keys, party, accepted>>

-----------------------------------------------------------------------------
Spend == events > 0 /\ events' = events - 1

\* A handler takes up a command.
Begin(h, c) ==
    /\ Spend
    /\ ~Busy(h) /\ Cardinality({g \in Handler : Busy(g)}) < MaxBusy
    /\ Become([cmd EXCEPT ![h] = [c EXCEPT !.barred = barred]])
    /\ UNCHANGED <<keys, party, blocks, accepted, barred>>

Command(op, p, q) == [Nothing EXCEPT !.op = op, !.me = p, !.with = q]

At(p, q) == Begin(p, Lookup(Command("at", p, q), "sess", p))
Answer(p, op) == Begin(p, Lookup(Command(op, p, None), "in", p))
Cancel(p) == Begin(p, Lookup(Command("cancel", p, None), "out", p))
InSession(p, op) == Begin(p, Lookup(Command(op, p, None), "sess", p))
Block(h, p, q) == Begin(h, To(Command("block", p, q), "sadd"))

Unblock(p, q) ==
    /\ Spend
    /\ <<p, q>> \in blocks
    /\ blocks' = blocks \ {<<p, q>>}
    /\ barred' = barred \ {<<p, q>>}
    /\ Become([h \in Handler |-> [cmd[h] EXCEPT !.barred = @ \ {<<p, q>>}]])
    /\ UNCHANGED <<keys, party, accepted>>

-----------------------------------------------------------------------------
(* Keys expire in the order they were written. *)

ExpireRequest(r) ==
    \/ /\ \E p \in Peer : from[p] = r /\ from' = Erase(from, {p})
       /\ UNCHANGED <<to, open>>
    \/ /\ \A p \in Peer : from[p] # r
       /\ \E p \in Peer : to[p] = r /\ to' = Erase(to, {p})
       /\ UNCHANGED <<from, open>>
    \/ /\ r \in open /\ \A p \in Peer : from[p] # r /\ to[p] # r
       /\ open' = open \ {r}
       /\ UNCHANGED <<from, to>>

ExpireSession(r) ==
    \/ /\ r \in live /\ live' = live \ {r}
       /\ UNCHANGED sess
    \/ /\ r \notin live
       /\ \E p \in Peer : sess[p] = r /\ sess' = Erase(sess, {p})
       /\ UNCHANGED live

Expire(r) ==
    /\ Spend
    /\ \/ ExpireRequest(r) /\ mixed' = Mixed(cmd, {r}) /\ UNCHANGED <<sess, live>>
       \/ ExpireSession(r) /\ UNCHANGED <<from, to, open, mixed>>
    /\ UNCHANGED <<party, blocks, cmd, accepted, barred>>

-----------------------------------------------------------------------------
\* Nothing yet, or request 1 of p to q pending, or accepted.
Init ==
    /\ \E p, q \in Peer, start \in {"nothing", "request", "session"} :
          LET set(is, S) == [x \in Peer |-> IF start = is /\ x \in S THEN 1 ELSE None]
          IN  /\ p # q
              /\ from = set("request", {p}) /\ to = set("request", {q})
              /\ sess = set("session", {p, q})
              /\ open = (IF start = "request" THEN {1} ELSE {})
              /\ live = (IF start = "session" THEN {1} ELSE {})
              /\ accepted = live
              /\ party = [r \in Id |-> IF r = 1 /\ start # "nothing" THEN <<p, q>> ELSE None]
    /\ blocks = {} /\ barred = {} /\ mixed = {}
    /\ cmd = [h \in Handler |-> Nothing]
    /\ events = MaxEvents

Step(h) ==
    \/ ReadPointer(h) \/ ReadRow(h) \/ DropPointer(h) \/ DeleteRequest(h) \/ DeleteSession(h)
    \/ CheckBlocked(h) \/ CheckFree(h) \/ SetFrom(h) \/ SetTo(h) \/ UndoFrom(h) \/ SaveRequest(h)
    \/ SaveSession(h) \/ SetPointer(h) \/ Touch(h) \/ AddBlock(h)

Next ==
    \/ \E h \in Handler : Step(h)
    \/ \E p \in Peer :
          \/ \E q \in Peer \ {p} : \/ At(p, q)
                                   \/ \E h \in {p, Web} : Block(h, p, q)
                                   \/ Unblock(p, q)
          \/ \E op \in {"accept", "reject"} : Answer(p, op)
          \/ \E op \in {"disconnect", "relay"} : InSession(p, op)
          \/ Cancel(p)
    \/ \E r \in Id : Expire(r)

Spec == Init /\ [][Next]_vars
-----------------------------------------------------------------------------
(* Correctness *)

TypeOK ==
    /\ from \in [Peer -> Id \cup {None}] /\ to \in [Peer -> Id \cup {None}]
    /\ sess \in [Peer -> Id \cup {None}]
    /\ open \subseteq Used /\ live \subseteq accepted /\ accepted \subseteq Used
    /\ blocks \subseteq Peer \X Peer /\ barred \subseteq blocks /\ mixed \subseteq Peer
    /\ \A h \in Handler : Busy(h) => cmd[h].me \in Peer

\* A message is passed on only between the parties of a request, and only after
\* the peer that was asked has agreed, however commands interleave ("/同意").
\* handleRelay never meets a session of others (its first branch).
Consent ==
    \A h \in Handler :
        cmd[h].op = "relay" /\ cmd[h].at \in {"touch", "kill"}
            => cmd[h].id \in accepted /\ cmd[h].me \in Ends(cmd[h].id)

\* As long as no command that concerns one of two peers ran at the same time as another
\* one, or while the keys of a request of theirs expired one by one, and none is running,
\* keys agree, also when a request or a session has timed out: a pending request is
\* pending for both, with its row; a session is that of both; no peer has two things
\* under way.
AtRest(S) == S \cap mixed = {} /\ \A h \in Handler : Scope(cmd[h]) \cap S = {}

KeysAgree ==
    \A r \in Used :
        LET a == party[r][1]
            b == party[r][2]
        IN  AtRest({a, b}) =>
                /\ from[a] = r => to[b] = r
                /\ to[b] = r => r \in open
                /\ r \in open => r \notin live /\ sess[a] \notin live /\ sess[b] \notin live
                /\ r \in live => sess[a] = r /\ sess[b] = r

\* A peer that asks for a conversation after a block between the two was
\* complete gets no request written ("对方无法再向你发起对话").
BlockBarsRequests ==
    \A h \in Handler :
        cmd[h].op = "at" /\ cmd[h].at \in {"check", "from", "to", "request"}
            => {<<cmd[h].me, cmd[h].with>>, <<cmd[h].with, cmd[h].me>>} \cap cmd[h].barred = {}

\* A message sent after the receiver or the sender has blocked the other is
\* not passed on ("进行中的会话已结束", p2p-service.ts:248).
BlockEndsTalk ==
    \A h \in Handler :
        cmd[h].op = "relay" /\ cmd[h].at = "touch"
            => \A p, q \in Ends(cmd[h].id) : <<p, q>> \notin cmd[h].barred
=============================================================================
