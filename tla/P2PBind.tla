------------------------------ MODULE P2PBind ------------------------------
(***************************************************************************)
(* Binding a chat peer to a web account: the bind codes and the two        *)
(* pointers of p2p-repos.ts, with their commands in p2p-service.ts and     *)
(* the wechat-bind routes.                                                 *)
(*                                                                         *)
(* bindUser is a row of the user, bindPeer a key of the peer; they are     *)
(* read and written by separate commands.  Each action is one await; reads *)
(* that follow each other without a write between them are one.  What a    *)
(* binding ends of the peers' conversations is the matter of module P2P.   *)
(***************************************************************************)
EXTENDS Naturals, FiniteSets, Sequences

CONSTANTS
    Accounts,    \* users of the web pages
    Phones,      \* peers: a bot and a peer id
    MaxCodes,    \* bound: bind codes ever made
    Commands,    \* bound: commands under way at the same time
    MaxGiven,    \* bound: commands ever given
    Nobody

BindAssumption ==
    /\ Nobody \notin Accounts \cup Phones
    /\ MaxCodes \in Nat /\ MaxGiven \in Nat

BindCodes == 1..MaxCodes

VARIABLES
    bindUser,    \* K.bindUser: the peer of each user
    bindPeer,    \* K.bindPeer: the user of each peer
    code,        \* K.bindCode: whose it is, Nobody without a key
    codesMade,   \* codes made so far
    bindCmd,     \* where each command is
    given,       \* commands given so far
    proved,      \* history: <<user, peer>> when the peer sent a code of the user
    spent,       \* history: how many commands took each code
    bindOver     \* history: two commands were under way at once

bindVars == <<bindUser, bindPeer, code, codesMade, bindCmd, given, proved, spent, bindOver>>

NoCmd == [at |-> "none", user |-> Nobody, peer |-> Nobody, code |-> Nobody, clear |-> <<>>, bind |-> FALSE]

BindInit ==
    /\ bindUser = [u \in Accounts |-> Nobody]
    /\ bindPeer = [p \in Phones |-> Nobody]
    /\ code = [c \in BindCodes |-> Nobody] /\ codesMade = {}
    /\ bindCmd = [k \in Commands |-> NoCmd] /\ given = 0
    /\ proved = {} /\ spent = [c \in BindCodes |-> 0] /\ bindOver = FALSE

UnderWay(k) == bindCmd[k].at # "none"

Start(k, r) ==
    /\ ~UnderWay(k) /\ given < MaxGiven
    /\ given' = given + 1
    /\ bindCmd' = [bindCmd EXCEPT ![k] = r]
    /\ bindOver' = (bindOver \/ \E j \in Commands : UnderWay(j))

Continue(k, r) == bindCmd' = [bindCmd EXCEPT ![k] = r] /\ UNCHANGED <<given, bindOver>>
-----------------------------------------------------------------------------
(* Bind codes *)

CreateBindCode(u, c) ==
    /\ codesMade = 1..(c - 1)
    /\ code' = [code EXCEPT ![c] = u]
    /\ codesMade' = codesMade \cup {c}
    /\ UNCHANGED <<bindUser, bindPeer, bindCmd, given, proved, spent, bindOver>>

CodeExpires(c) ==
    /\ code[c] # Nobody
    /\ code' = [code EXCEPT ![c] = Nobody]
    /\ UNCHANGED <<bindUser, bindPeer, codesMade, bindCmd, given, proved, spent, bindOver>>

\* consumeBindCode reads the code ...
TakeCode(k, p, c) ==
    /\ code[c] # Nobody
    /\ Start(k, [NoCmd EXCEPT !.at = "taken", !.user = code[c], !.peer = p, !.code = c, !.bind = TRUE])
    /\ UNCHANGED <<bindUser, bindPeer, code, codesMade, proved, spent>>

\* ... and deletes it, without looking whether it is still there.
DropCode(k) ==
    LET c == bindCmd[k].code
    IN  /\ bindCmd[k].at = "taken"
        /\ Continue(k, [bindCmd[k] EXCEPT !.at = "look"])
        /\ code' = [code EXCEPT ![c] = Nobody]
        /\ proved' = proved \cup {<<bindCmd[k].user, bindCmd[k].peer>>}
        /\ spent' = [spent EXCEPT ![c] = @ + 1]
        /\ UNCHANGED <<bindUser, bindPeer, codesMade>>
-----------------------------------------------------------------------------
(* setPrimaryBind and clearPrimaryBind *)

PreviousOnly(u, p) == IF bindUser[u] # Nobody THEN <<<<u, bindUser[u]>>>> ELSE <<>>

\* What gives way to a bind: that of the peer's other owner, if it still is
\* of this peer, and the user's own.
GivesWay(u, p) ==
    LET owner == bindPeer[p]
    IN  (IF owner \notin {Nobody, u} /\ bindUser[owner] = p THEN <<<<owner, p>>>> ELSE <<>>)
        \o (IF bindUser[u] # Nobody THEN <<<<u, bindUser[u]>>>> ELSE <<>>)

Look(k) ==
    /\ bindCmd[k].at = "look"
    /\ Continue(k, [bindCmd[k] EXCEPT !.at = "clear", !.clear = GivesWay(bindCmd[k].user, bindCmd[k].peer)])
    /\ UNCHANGED <<bindUser, bindPeer, code, codesMade, proved, spent>>

\* /unbind of a peer ends the bind of the user its pointer names; so does
\* the page of the user.
Unbind(k, u) ==
    /\ bindUser[u] # Nobody
    /\ Start(k, [NoCmd EXCEPT !.at = "clear", !.user = u, !.clear = <<<<u, bindUser[u]>>>>])
    /\ UNCHANGED <<bindUser, bindPeer, code, codesMade, proved, spent>>

UnbindPeer(k, p) == bindPeer[p] # Nobody /\ Unbind(k, bindPeer[p])

\* clearBindPointers: the user's row, and the peer's pointer if it is the user's.
ClearUser(k) ==
    LET c == bindCmd[k]
    IN  /\ c.at = "clear" /\ c.clear # <<>>
        /\ Continue(k, [c EXCEPT !.at = "pointer"])
        /\ bindUser' = [bindUser EXCEPT ![c.clear[1][1]] = Nobody]
        /\ UNCHANGED <<bindPeer, code, codesMade, proved, spent>>

PointerAsked(k) ==
    LET c == bindCmd[k]
    IN  /\ c.at = "pointer"
        /\ Continue(k, IF bindPeer[c.clear[1][2]] = c.clear[1][1] THEN [c EXCEPT !.at = "drop"]
                       ELSE [c EXCEPT !.at = "clear", !.clear = Tail(@)])
        /\ UNCHANGED <<bindUser, bindPeer, code, codesMade, proved, spent>>

DropPointer(k) ==
    LET c == bindCmd[k]
    IN  /\ c.at = "drop"
        /\ Continue(k, [c EXCEPT !.at = "clear", !.clear = Tail(@)])
        /\ bindPeer' = [bindPeer EXCEPT ![c.clear[1][2]] = Nobody]
        /\ UNCHANGED <<bindUser, code, codesMade, proved, spent>>

WriteUser(k) ==
    LET c == bindCmd[k]
    IN  /\ c.at = "clear" /\ c.clear = <<>>
        /\ Continue(k, IF c.bind THEN [c EXCEPT !.at = "peer"] ELSE NoCmd)
        /\ bindUser' = IF c.bind THEN [bindUser EXCEPT ![c.user] = c.peer] ELSE bindUser
        /\ UNCHANGED <<bindPeer, code, codesMade, proved, spent>>

WritePeer(k) ==
    LET c == bindCmd[k]
    IN  /\ c.at = "peer"
        /\ Continue(k, NoCmd)
        /\ bindPeer' = [bindPeer EXCEPT ![c.peer] = c.user]
        /\ UNCHANGED <<bindUser, code, codesMade, proved, spent>>

BindNext ==
    \/ \E u \in Accounts, c \in BindCodes : CreateBindCode(u, c)
    \/ \E c \in BindCodes : CodeExpires(c)
    \/ \E k \in Commands, p \in Phones, c \in BindCodes : TakeCode(k, p, c)
    \/ \E k \in Commands : DropCode(k)
    \/ \E k \in Commands : Look(k)
    \/ \E k \in Commands, u \in Accounts : Unbind(k, u)
    \/ \E k \in Commands, p \in Phones : UnbindPeer(k, p)
    \/ \E k \in Commands : ClearUser(k)
    \/ \E k \in Commands : PointerAsked(k)
    \/ \E k \in Commands : DropPointer(k)
    \/ \E k \in Commands : WriteUser(k)
    \/ \E k \in Commands : WritePeer(k)

BindSpec == BindInit /\ [][BindNext]_bindVars
-----------------------------------------------------------------------------
BindTypeOK ==
    /\ bindUser \in [Accounts -> Phones \cup {Nobody}]
    /\ bindPeer \in [Phones -> Accounts \cup {Nobody}]
    /\ code \in [BindCodes -> Accounts \cup {Nobody}] /\ codesMade \subseteq BindCodes
    /\ \A k \in Commands :
          bindCmd[k].at \in {"none", "taken", "look", "clear", "pointer", "drop", "peer"}
    /\ proved \subseteq Accounts \X Phones /\ bindOver \in BOOLEAN /\ given \in 0..MaxGiven

\* A peer is only ever taken for a user whose code it sent, whatever runs at
\* the same time; and as long as no two commands overlapped, the two pointers
\* agree whenever none is under way and a code binds once
\* (setPrimaryBind, clearBindPointers, consumeBindCode).
BindsAgree ==
    /\ \A p \in Phones : bindPeer[p] # Nobody => <<bindPeer[p], p>> \in proved
    /\ \A u \in Accounts : bindUser[u] # Nobody => <<u, bindUser[u]>> \in proved
    /\ ~bindOver =>
          /\ \A c \in BindCodes : spent[c] <= 1
          /\ (\A k \in Commands : ~UnderWay(k)) =>
                \A u \in Accounts, p \in Phones : bindUser[u] = p <=> bindPeer[p] = u
=============================================================================
