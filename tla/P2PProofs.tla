----------------------------- MODULE P2PProofs -----------------------------
(***************************************************************************)
(* What TLC shows of P2P for three peers, for any number of them, and for  *)
(* any number of requests, commands at the same time and keys that expire. *)
(***************************************************************************)
EXTENDS P2P, TLAPS

Ops == {"none", "at", "accept", "accepting", "reject", "cancel", "disconnect", "relay", "block"}
Lookups == {"pointer", "row", "drop"}
Creation == {"check", "from", "to", "request"}
Ats == Lookups \cup Creation
       \cup {"done", "delete", "kill", "blocked", "undo", "save", "first", "second", "touch", "sadd"}

Commands ==
    [op : Ops, at : Ats, me : Peer \cup {None}, with : Peer \cup {None}, key : {"sess", "out", "in"},
     of : Peer \cup {None}, id : Id \cup {None}, req : Id \cup {None}, old : SUBSET Id,
     barred : SUBSET (Peer \X Peer)]

\* r is a request of parties[r]; p is one of the two.
Known(r, parties) == r \in Id /\ parties[r] # None
Party(p, r, parties) == p = parties[r][1] \/ p = parties[r][2]

\* Whose command it is, and which of its steps it can be at.
Placed(c) ==
    /\ c.op = "none" \/ (c.me \in Peer /\ c.at # "done")
    /\ c.op = "none" => c.at = "done"
    /\ c.op \in {"at", "block"} => c.with \in Peer
    /\ c.at \in Lookups => c.of \in Peer
    /\ c.at \in Creation \cup {"undo"} => c.op = "at"
    /\ c.at = "sadd" => c.op = "block"
    /\ c.at \in {"save", "first", "second"} => c.op = "accepting"
    /\ c.at = "touch" => c.op = "relay"
    /\ c.at = "blocked" => c.op \in {"at", "accept"}
    /\ c.at = "kill" => c.op \in {"accepting", "disconnect", "block"}
    /\ c.op = "relay" => c.key = "sess" /\ c.at \in Lookups \cup {"touch"}
    /\ c.op = "relay" /\ c.at \in Lookups => c.of = c.me
    /\ c.op \in {"accept", "reject"} => c.key = "in"
    /\ c.op = "cancel" => c.key = "out"
    /\ c.op = "disconnect" => c.key = "sess"
    /\ c.op = "accepting" => c.key \in {"in", "sess"}
    /\ c.op = "at" /\ c.at \in Lookups => c.of = c.me
    /\ c.op = "block" /\ c.at \in Lookups \cup {"delete", "kill"} => c.of \in {c.me, c.with}

\* What it has found is a request, a session it looks up is one of the peer it
\* asks for, and what it makes a session of has been accepted.
Founded(c, parties, agreed) ==
    /\ c.at \in {"row", "delete", "from", "to", "request"} => Known(c.id, parties)
    /\ c.at = "kill" /\ c.op # "accepting" => Known(c.id, parties)
    /\ c.at = "blocked" /\ c.op # "at" => Known(c.id, parties)
    /\ c.at = "row" /\ c.key = "sess" => Party(c.of, c.id, parties)
    /\ \A r \in c.old : Known(r, parties)
    /\ c.op = "accepting" /\ c.at \in Lookups \cup {"kill"} /\ c.key = "sess" => c.req \in agreed
    /\ c.op = "accepting" /\ c.at = "kill" => c.key = "sess"
    /\ c.at \in {"save", "first", "second"} => c.req \in agreed
    /\ c.op = "accepting" /\ c.at = "delete" => c.req = c.id
    /\ c.at = "touch" => c.id \in agreed /\ Party(c.me, c.id, parties)

\* The blocks that were complete when it began still stand, and bar what it creates.
Warned(c, blocked) ==
    /\ c.barred \subseteq blocked
    /\ c.op = "at" /\ c.at \in Creation
           => <<c.me, c.with>> \notin c.barred /\ <<c.with, c.me>> \notin c.barred

Sound(c, parties, agreed, blocked) ==
    c \in Commands /\ Placed(c) /\ Founded(c, parties, agreed) /\ Warned(c, blocked)

Pointers ==
    /\ from \in [Peer -> Id \cup {None}] /\ to \in [Peer -> Id \cup {None}]
    /\ sess \in [Peer -> Id \cup {None}]
    /\ \A p \in Peer : /\ from[p] = None \/ Known(from[p], party)
                       /\ to[p] = None \/ Known(to[p], party)
                       /\ sess[p] = None \/ (Known(sess[p], party) /\ Party(p, sess[p], party))

Tables ==
    /\ party \in [Id -> (Peer \X Peer) \cup {None}]
    /\ \A r \in open : Known(r, party)
    /\ \A r \in accepted : Known(r, party)
    /\ live \subseteq accepted
    /\ blocks \subseteq Peer \X Peer /\ barred \subseteq blocks

Handlers ==
    /\ cmd \in [Handler -> Commands]
    /\ \A h \in Handler : Sound(cmd[h], party, accepted, blocks)

Inv == Pointers /\ Tables /\ Handlers /\ mixed \subseteq Peer

-----------------------------------------------------------------------------
(* Facts about the operators *)

\* What a command goes on as: it ends, or it is sound.
Resumes(c, parties, agreed, blocked) == c.at = "done" \/ Sound(c, parties, agreed, blocked)

\* Ids are numbers, None is none of what it stands in for.
LEMMA Distinct ==
    /\ None \notin Id /\ None \notin Peer /\ None \notin Peer \X Peer
    /\ Id \subseteq Nat /\ 1 \in Id
BY P2PConstants DEF Id

\* A handler without a command is sound, whatever is in the tables.
LEMMA NothingSound ==
    ASSUME NEW parties, NEW agreed, NEW blocked
    PROVE  Sound(Nothing, parties, agreed, blocked)
<1>1. Nothing \in Commands
  BY DEF Nothing, Commands, Ops, Ats, Lookups, Creation
<1>2. Placed(Nothing)
  BY DEF Nothing, Placed, Lookups, Creation
<1>3. Founded(Nothing, parties, agreed)
  BY DEF Nothing, Founded, Lookups, Creation
<1>4. Warned(Nothing, blocked)
  BY DEF Nothing, Warned, Lookups, Creation
<1> QED
  BY <1>1, <1>2, <1>3, <1>4 DEF Sound

\* What was sound stays so when requests are added, accepted, and blocks set.
LEMMA SoundGrows ==
    ASSUME NEW c, NEW P, NEW P2, NEW A, NEW A2, NEW B, NEW B2, Sound(c, P, A, B),
           A \subseteq A2, B \subseteq B2,
           \A r \in Id : Known(r, P) => P2[r] = P[r],
           \A r \in A : Known(r, P)
    PROVE  Sound(c, P2, A2, B2)
<1>1. \A r : Known(r, P) => Known(r, P2) /\ \A p : Party(p, r, P) => Party(p, r, P2)
  BY DEF Known, Party
<1>2. Founded(c, P2, A2)
  BY <1>1 DEF Sound, Founded
<1>3. Warned(c, B2)
  BY DEF Sound, Warned
<1> QED
  BY <1>2, <1>3 DEF Sound

\* The peers a command concerns are peers.
LEMMA MixedPeers ==
    ASSUME Tables, mixed \subseteq Peer, NEW c \in [Handler -> Commands], NEW R
    PROVE  Mixed(c, R) \subseteq Peer
<1>1. \A h \in Handler : Scope(c[h]) \subseteq Peer
  <2> SUFFICES ASSUME NEW h \in Handler PROVE Scope(c[h]) \subseteq Peer
    OBVIOUS
  <2>1. c[h].me \in Peer \cup {None} /\ c[h].with \in Peer \cup {None} /\ c[h].of \in Peer \cup {None}
    BY DEF Commands
  <2>2. \A r \in Used : Ends(r) \subseteq Peer
    BY DEF Tables, Used, Ends
  <2> QED
    BY <2>1, <2>2 DEF Scope
<1> QED
  BY <1>1 DEF Mixed

\* Handler h goes on with c, the others as they were.
LEMMA GoesOn ==
    ASSUME NEW h \in Handler, NEW c, Go(h, c), Inv,
           Resumes(c, party', accepted', blocks'),
           \A g \in Handler : Sound(cmd[g], party', accepted', blocks')
    PROVE  Handlers' /\ mixed' \subseteq Peer
<1>1. cmd \in [Handler -> Commands] /\ mixed \subseteq Peer /\ Tables
  BY DEF Inv, Handlers
<1>2. cmd' = [cmd EXCEPT ![h] = IF c.at = "done" THEN Nothing ELSE c] /\ mixed' = Mixed(cmd', Fading)
  BY DEF Go, Become
<1>3. Sound(IF c.at = "done" THEN Nothing ELSE c, party', accepted', blocks')
  BY NothingSound DEF Resumes
<1>4. \A g \in Handler : Sound(cmd'[g], party', accepted', blocks')
  BY <1>1, <1>2, <1>3
<1>5. cmd' \in [Handler -> Commands]
  BY <1>1, <1>2, <1>3 DEF Sound
<1>6. mixed' \subseteq Peer
  BY <1>1, <1>2, <1>5, MixedPeers
<1> QED
  BY <1>4, <1>5, <1>6 DEF Handlers

\* In every step the blocks that are complete still stand.
LEMMA BarredStands ==
    ASSUME NEW h, NEW c, Go(h, c), barred \subseteq blocks, blocks \subseteq blocks',
           blocks' \subseteq Peer \X Peer
    PROVE  barred' \subseteq blocks'
BY DEF Go

\* Block and the like go on to the next key of either peer, or end.
LEMMA EndNextSound ==
    ASSUME NEW c, NEW P, NEW A, NEW B, Sound(c, P, A, B), c.op = "block",
           c.at \in Lookups \cup {"delete", "kill"}
    PROVE  Resumes(EndNext(c), P, A, B)
<1> USE DEF Sound
<1>1. ASSUME NEW key \in {"sess", "out", "in"}, NEW p \in {c.me, c.with}
      PROVE  Sound(Lookup(c, key, p), P, A, B)
  <2> DEFINE d == [c EXCEPT !.at = "pointer", !.key = key, !.of = p]
  <2>1. d \in Commands
    BY <1>1 DEF Commands, Ops, Ats, Lookups, Creation, Placed
  <2>2. /\ d.at = "pointer" /\ d.key = key /\ d.of = p /\ d.op = "block"
        /\ d.me = c.me /\ d.with = c.with /\ d.old = c.old /\ d.barred = c.barred
    BY DEF Commands
  <2> HIDE DEF d
  <2>3. Placed(d)
    BY <1>1, <2>2 DEF Placed, Lookups, Creation
  <2>4. Founded(d, P, A) /\ Warned(d, B)
    BY <2>2 DEF Founded, Warned, Lookups, Creation
  <2> QED
    BY <2>1, <2>3, <2>4 DEF Lookup, d
<1>2. c.key \in {"sess", "out", "in"} /\ c.of \in {c.me, c.with}
  BY DEF Commands, Placed
<1>3. To(c, "done").at = "done"
  BY DEF To, Commands
<1>4. CASE c.key = "sess"
  BY <1>1, <1>2, <1>4 DEF EndNext, Resumes
<1>5. CASE c.key = "out"
  BY <1>1, <1>2, <1>5 DEF EndNext, Resumes
<1>6. CASE c.key = "in"
  BY <1>1, <1>2, <1>3, <1>6 DEF EndNext, Resumes
<1> QED
  BY <1>2, <1>4, <1>5, <1>6

\* acceptConnectRequest looks for the sessions of one side, then of the other.
LEMMA AcceptNextSound ==
    ASSUME NEW c, NEW A, NEW B, Sound(c, party, A, B), Tables, c.op = "accepting",
           c.key = "sess", c.req \in A, \A r \in A : Known(r, party), c.at \in Lookups
    PROVE  Resumes(AcceptNext(c), party, A, B)
<1> USE DEF Sound
<1>1. party[c.req][2] \in Peer
  BY DEF Known, Tables
<1>2. Sound(Lookup(c, "sess", party[c.req][2]), party, A, B)
  <2> DEFINE d == [c EXCEPT !.at = "pointer", !.key = "sess", !.of = party[c.req][2]]
  <2>1. d \in Commands
    BY <1>1 DEF Commands, Ops, Ats, Lookups, Creation
  <2>2. /\ d.at = "pointer" /\ d.key = "sess" /\ d.of = party[c.req][2] /\ d.op = "accepting"
        /\ d.me = c.me /\ d.with = c.with /\ d.old = c.old /\ d.barred = c.barred /\ d.req = c.req
    BY DEF Commands
  <2> HIDE DEF d
  <2>3. Placed(d)
    BY <1>1, <2>2 DEF Placed, Lookups, Creation
  <2>4. Founded(d, party, A) /\ Warned(d, B)
    BY <2>2 DEF Founded, Warned, Lookups, Creation
  <2> QED
    BY <2>1, <2>3, <2>4 DEF Lookup, d
<1>3. Sound(To(c, "kill"), party, A, B)
  <2> DEFINE d == [c EXCEPT !.at = "kill"]
  <2>1. d \in Commands
    BY <1>1 DEF Commands, Ops, Ats, Lookups, Creation
  <2>2. /\ d.at = "kill" /\ d.key = "sess" /\ d.op = "accepting" /\ d.of = c.of
        /\ d.me = c.me /\ d.with = c.with /\ d.old = c.old /\ d.barred = c.barred /\ d.req = c.req
    BY DEF Commands
  <2> HIDE DEF d
  <2>3. Placed(d)
    BY <1>1, <2>2 DEF Placed, Lookups, Creation
  <2>4. Founded(d, party, A) /\ Warned(d, B)
    BY <2>2 DEF Founded, Warned, Lookups, Creation
  <2> QED
    BY <2>1, <2>3, <2>4 DEF To, d
<1> QED
  BY <1>2, <1>3 DEF AcceptNext, Resumes

\* A pointer of a known request leads to its row.
LEMMA RowNext ==
    ASSUME NEW c, NEW P, NEW A, NEW B, Sound(c, P, A, B), c.at = "pointer",
           NEW r, Known(r, P), c.key = "sess" => Party(c.of, r, P)
    PROVE  Sound(To([c EXCEPT !.id = r], "row"), P, A, B)
<1> USE DEF Sound
<1> DEFINE d == [c EXCEPT !.id = r, !.at = "row"]
<1>1. d \in Commands
  BY DEF Commands, Ops, Ats, Lookups, Creation, Known
<1>2. /\ d.at = "row" /\ d.key = c.key /\ d.op = c.op /\ d.of = c.of /\ d.id = r
      /\ d.me = c.me /\ d.with = c.with /\ d.old = c.old /\ d.barred = c.barred /\ d.req = c.req
  BY DEF Commands
<1>3. To([c EXCEPT !.id = r], "row") = d
  BY DEF To, Commands
<1> HIDE DEF d
<1>4. Placed(d)
  BY <1>2 DEF Placed, Lookups, Creation
<1>5. Founded(d, P, A) /\ Warned(d, B)
  BY <1>2 DEF Founded, Warned, Lookups, Creation
<1> QED
  BY <1>1, <1>3, <1>4, <1>5

\* A command goes on to another step with what it knows.
LEMMA ToSound ==
    ASSUME NEW c, NEW P, NEW A, NEW B, Sound(c, P, A, B),
           NEW at \in {"drop", "delete", "kill", "touch", "blocked", "check", "to", "undo", "request",
                       "first", "second", "save"},
           at = "drop" => c.at = "row",
           at = "delete" => Known(c.id, P) /\ c.op \in {"accept", "reject", "cancel", "block"}
                            /\ (c.op = "block" => c.of \in {c.me, c.with}),
           at = "kill" => Known(c.id, P) /\ c.op \in {"disconnect", "block"}
                            /\ (c.op = "block" => c.of \in {c.me, c.with}),
           at = "touch" => c.op = "relay" /\ c.id \in A /\ Party(c.me, c.id, P),
           at = "blocked" => c.op = "at" \/ (c.op = "accept" /\ Known(c.id, P)),
           at = "check" => c.op = "at" /\ <<c.me, c.with>> \notin B /\ <<c.with, c.me>> \notin B,
           at = "to" => c.at = "from",
           at \in {"undo", "request"} => c.at = "to",
           at = "save" => c.op = "accepting" /\ c.at = "kill",
           at = "first" => c.at = "save",
           at = "second" => c.at = "first"
    PROVE  Sound(To(c, at), P, A, B)
<1> USE DEF Sound
<1> DEFINE d == [c EXCEPT !.at = at]
<1>1. d \in Commands
  BY DEF Commands, Ops, Ats, Lookups, Creation
<1>2. /\ d.at = at /\ d.key = c.key /\ d.op = c.op /\ d.of = c.of /\ d.id = c.id
      /\ d.me = c.me /\ d.with = c.with /\ d.old = c.old /\ d.barred = c.barred /\ d.req = c.req
  BY DEF Commands
<1> HIDE DEF d
<1>4. Placed(d)
  BY <1>2 DEF Placed, Lookups, Creation
<1>5. Founded(d, P, A)
  BY <1>2 DEF Founded, Placed, Lookups, Creation
<1>6. Warned(d, B)
  BY <1>2 DEF Warned, Placed, Lookups, Creation
<1> QED
  BY <1>1, <1>4, <1>5, <1>6 DEF To, d

\* A command that found the row goes on soundly.
LEMMA FoundSound ==
    ASSUME NEW c, NEW A, NEW B, Sound(c, party, A, B), Tables, c.at = "row",
           c.key = "sess" => c.id \in A, \A r \in A : Known(r, party)
    PROVE  Resumes(Found(c), party, A, B)
<1> USE DEF Sound
<1>0. c \in Commands /\ Known(c.id, party) /\ c.op \in Ops \ {"none"}
  BY DEF Founded, Placed, Commands
<1>1. CASE c.op = "at"
  <2>1. To(c, "done").at = "done"
    BY <1>0 DEF To, Commands
  <2> QED
    BY <1>1, <2>1 DEF Found, Resumes
<1>2. CASE c.op = "accept"
  <2>1. Sound(To(c, "blocked"), party, A, B)
    BY <1>0, <1>2, ToSound
  <2> QED
    BY <1>2, <2>1 DEF Found, Resumes
<1>3. CASE c.op = "accepting" /\ c.key = "in"
  <2>0. Found(c) = To([c EXCEPT !.req = c.id], IF party[c.id][2] = c.me THEN "delete" ELSE "done")
    BY <1>3 DEF Found
  <2>1. CASE party[c.id][2] = c.me
    <3> DEFINE d == [c EXCEPT !.req = c.id, !.at = "delete"]
    <3>1. d \in Commands
      BY <1>0 DEF Commands, Ops, Ats, Lookups, Creation, Known
    <3>2. /\ d.at = "delete" /\ d.key = c.key /\ d.op = c.op /\ d.of = c.of /\ d.id = c.id
          /\ d.me = c.me /\ d.with = c.with /\ d.old = c.old /\ d.barred = c.barred /\ d.req = c.id
      BY <1>0 DEF Commands
    <3>3. Found(c) = d
      BY <1>0, <2>0, <2>1 DEF To, Commands
    <3> HIDE DEF d
    <3>4. Placed(d)
      BY <1>3, <3>2 DEF Placed, Lookups, Creation
    <3>5. Founded(d, party, A)
      BY <1>0, <1>3, <3>2 DEF Founded, Lookups, Creation
    <3>6. Warned(d, B)
      BY <1>3, <3>2 DEF Warned, Creation
    <3> QED
      BY <3>1, <3>3, <3>4, <3>5, <3>6 DEF Resumes
  <2>2. CASE party[c.id][2] # c.me
    <3>1. To([c EXCEPT !.req = c.id], "done").at = "done"
      BY <1>0 DEF To, Commands
    <3> QED
      BY <2>0, <2>2, <3>1 DEF Resumes
  <2> QED
    BY <2>1, <2>2
<1>4. CASE c.op = "accepting" /\ c.key = "sess"
  <2> DEFINE d == [c EXCEPT !.old = @ \cup {c.id}]
  <2>1. d \in Commands
    BY <1>0 DEF Commands, Known
  <2>2. /\ d.at = "row" /\ d.key = "sess" /\ d.op = c.op /\ d.of = c.of /\ d.id = c.id
        /\ d.me = c.me /\ d.with = c.with /\ d.old = c.old \cup {c.id} /\ d.barred = c.barred
        /\ d.req = c.req
    BY <1>0, <1>4 DEF Commands
  <2>3. Found(c) = AcceptNext(d)
    BY <1>4 DEF Found
  <2> HIDE DEF d
  <2>4. Placed(d)
    BY <1>4, <2>2 DEF Placed, Lookups, Creation
  <2>5. Founded(d, party, A) /\ d.req \in A
    BY <1>0, <1>4, <2>2 DEF Founded, Lookups, Creation
  <2>6. Warned(d, B)
    BY <1>4, <2>2 DEF Warned, Creation
  <2>7. Sound(d, party, A, B)
    BY <2>1, <2>4, <2>5, <2>6
  <2> QED
    BY <1>4, <2>2, <2>3, <2>5, <2>7, AcceptNextSound DEF Lookups
<1>5. CASE c.op \in {"reject", "cancel"}
  <2>1. Sound(To(c, "delete"), party, A, B)
    BY <1>0, <1>5, ToSound
  <2> QED
    BY <1>5, <2>1 DEF Found, Resumes
<1>6. CASE c.op = "disconnect"
  <2>1. Sound(To(c, "kill"), party, A, B)
    BY <1>0, <1>6, ToSound
  <2> QED
    BY <1>6, <2>1 DEF Found, Resumes
<1>7. CASE c.op = "relay"
  <2>1. c.key = "sess" /\ c.of = c.me
    BY <1>7 DEF Placed, Lookups
  <2>2. c.id \in A /\ Party(c.me, c.id, party)
    BY <2>1 DEF Founded
  <2>3. Sound(To(c, "touch"), party, A, B)
    BY <1>7, <2>2, ToSound
  <2>4. c.me \in Ends(c.id)
    BY <2>2 DEF Party, Ends
  <2> QED
    BY <1>7, <2>3, <2>4 DEF Found, Resumes
<1>8. CASE c.op = "block"
  <2>1. c.of \in {c.me, c.with}
    BY <1>8 DEF Placed, Lookups
  <2>2. Sound(To(c, "kill"), party, A, B) /\ Sound(To(c, "delete"), party, A, B)
    BY <1>0, <1>8, <2>1, ToSound
  <2> QED
    BY <1>8, <2>2 DEF Found, Resumes
<1>9. c.op = "accepting" => c.key \in {"in", "sess"}
  BY DEF Placed
<1> QED
  BY <1>0, <1>1, <1>2, <1>3, <1>4, <1>5, <1>6, <1>7, <1>8, <1>9 DEF Ops

\* A command that found nothing goes on soundly, with the id forgotten.
LEMMA MissingSound ==
    ASSUME NEW c, NEW A, NEW B, Sound(c, party, A, B), Tables, c.at \in {"pointer", "drop"},
           \A r \in A : Known(r, party)
    PROVE  Resumes(Missing([c EXCEPT !.id = None]), party, A, B)
<1> USE DEF Sound
<1> DEFINE d == [c EXCEPT !.id = None]
<1>1. d \in Commands /\ c.op \in Ops \ {"none"}
  BY DEF Commands, Placed
<1>2. /\ d.at = c.at /\ d.key = c.key /\ d.op = c.op /\ d.of = c.of /\ d.id = None
      /\ d.me = c.me /\ d.with = c.with /\ d.old = c.old /\ d.barred = c.barred /\ d.req = c.req
  BY DEF Commands
<1> SUFFICES Resumes(Missing(d), party, A, B)
  OBVIOUS
<1> HIDE DEF d
<1>3. Sound(d, party, A, B)
  <2>1. Placed(d)
    BY <1>2 DEF Placed, Lookups, Creation
  <2>2. Founded(d, party, A)
    BY <1>2 DEF Founded, Lookups, Creation
  <2>3. Warned(d, B)
    BY <1>2 DEF Warned, Lookups, Creation
  <2> QED
    BY <1>1, <2>1, <2>2, <2>3
<1>4. d.at \in Lookups /\ d.me \in Peer
  BY <1>1, <1>2, <1>3 DEF Lookups, Placed
<1>5. ASSUME d.op = "at", NEW key \in {"out", "in"}
      PROVE  Sound(Lookup(d, key, d.me), party, A, B)
  <2> DEFINE e == [d EXCEPT !.at = "pointer", !.key = key, !.of = d.me]
  <2>1. e \in Commands
    BY <1>1, <1>4, <1>5 DEF Commands, Ops, Ats, Lookups, Creation
  <2>2. /\ e.at = "pointer" /\ e.key = key /\ e.op = d.op /\ e.of = d.me /\ e.id = None
        /\ e.me = d.me /\ e.with = d.with /\ e.old = d.old /\ e.barred = d.barred
    BY <1>1, <1>2 DEF Commands
  <2> HIDE DEF e
  <2>3. Placed(e)
    BY <1>3, <1>5, <2>2 DEF Placed, Lookups, Creation
  <2>4. Founded(e, party, A) /\ Warned(e, B)
    BY <1>3, <1>5, <2>2 DEF Founded, Warned, Lookups, Creation
  <2> QED
    BY <2>1, <2>3, <2>4 DEF Lookup, e
<1>6. ASSUME d.op = "accept"
      PROVE  Sound(Lookup([d EXCEPT !.op = "accepting"], "in", d.me), party, A, B)
  <2> DEFINE e == [d EXCEPT !.op = "accepting", !.at = "pointer", !.key = "in", !.of = d.me]
  <2>1. e \in Commands
    <3>1. "accepting" \in Ops /\ "pointer" \in Ats /\ d.me \in Peer \cup {None} /\ d \in Commands
      BY <1>1, <1>4 DEF Ops, Ats, Lookups
    <3> QED
      BY <3>1 DEF Commands
  <2>0. Lookup([d EXCEPT !.op = "accepting"], "in", d.me) = e
    BY <1>1 DEF Commands, Lookup
  <2>2. /\ e.at = "pointer" /\ e.key = "in" /\ e.op = "accepting" /\ e.of = d.me /\ e.id = None
        /\ e.me = d.me /\ e.with = d.with /\ e.old = d.old /\ e.barred = d.barred
    BY <1>1, <1>2 DEF Commands
  <2> HIDE DEF e
  <2>3. Placed(e)
    BY <1>3, <1>6, <2>2 DEF Placed, Lookups, Creation
  <2>4. Founded(e, party, A) /\ Warned(e, B)
    BY <1>3, <1>6, <2>2 DEF Founded, Warned, Lookups, Creation
  <2> QED
    BY <2>0, <2>1, <2>3, <2>4
<1>7. To(d, "done").at = "done"
  BY <1>1 DEF To, Commands
<1>8. CASE d.op = "at"
  <2>1. Sound(To(d, "blocked"), party, A, B)
    BY <1>3, <1>8, ToSound
  <2>2. d.key \in {"sess", "out", "in"}
    BY <1>1 DEF Commands
  <2>3. CASE d.key = "sess"
    BY <1>5, <1>8, <2>3 DEF Missing, Resumes
  <2>4. CASE d.key = "out"
    BY <1>5, <1>8, <2>4 DEF Missing, Resumes
  <2>5. CASE d.key = "in"
    BY <1>8, <2>1, <2>5 DEF Missing, Resumes
  <2> QED
    BY <2>2, <2>3, <2>4, <2>5
<1>9. CASE d.op = "accept"
  BY <1>6, <1>9 DEF Missing, Resumes
<1>10. CASE d.op = "accepting" /\ d.key = "sess"
  <2>1. d.req \in A
    BY <1>3, <1>4, <1>10 DEF Founded
  <2>2. Missing(d) = AcceptNext(d)
    BY <1>10 DEF Missing
  <2> QED
    BY <1>3, <1>4, <1>10, <2>1, <2>2, AcceptNextSound
<1>11. CASE d.op = "block"
  BY <1>3, <1>4, <1>11, EndNextSound DEF Missing
<1>12. CASE d.op \in {"reject", "cancel", "disconnect", "relay"} \/ (d.op = "accepting" /\ d.key # "sess")
  BY <1>7, <1>12 DEF Missing, Resumes
<1> QED
  BY <1>1, <1>2, <1>8, <1>9, <1>10, <1>11, <1>12 DEF Ops

-----------------------------------------------------------------------------
(* The steps *)

\* A step of a handler keeps the invariant when the keys stay right and what it
\* goes on with is sound in the new state.
LEMMA GoKeeps ==
    ASSUME Inv, NEW h \in Handler, NEW c, Go(h, c),
           Resumes(c, party', accepted', blocks'), Pointers',
           party' \in [Id -> (Peer \X Peer) \cup {None}],
           \A r \in Id : Known(r, party) => party'[r] = party[r],
           \A r \in open' \cup accepted' : Known(r, party'),
           live' \subseteq accepted', accepted \subseteq accepted',
           blocks \subseteq blocks', blocks' \subseteq Peer \X Peer
    PROVE  Inv'
<1>1. \A g \in Handler : Sound(cmd[g], party', accepted', blocks')
  <2> SUFFICES ASSUME NEW g \in Handler PROVE Sound(cmd[g], party', accepted', blocks')
    OBVIOUS
  <2>1. Sound(cmd[g], party, accepted, blocks) /\ \A r \in accepted : Known(r, party)
    BY DEF Inv, Handlers, Tables
  <2> QED
    BY <2>1, SoundGrows
<1>2. Handlers' /\ mixed' \subseteq Peer
  BY <1>1, GoesOn
<1>3. barred' \subseteq blocks'
  BY BarredStands DEF Inv, Tables
<1> QED
  BY <1>2, <1>3 DEF Inv, Tables

\* In particular one that touches neither requests, sessions nor blocks.
LEMMA GoOnlyKeeps ==
    ASSUME Inv, NEW h \in Handler, NEW c, Go(h, c),
           Resumes(c, party, accepted, blocks), Pointers',
           UNCHANGED <<open, live, party, accepted, blocks>>
    PROVE  Inv'
BY GoKeeps DEF Inv, Tables

LEMMA HandlerSound ==
    ASSUME Inv, NEW h \in Handler
    PROVE  /\ Sound(cmd[h], party, accepted, blocks) /\ Tables /\ Pointers
           /\ \A r \in accepted : Known(r, party)
BY DEF Inv, Handlers, Tables

LEMMA ReadPointerKeeps ==
    ASSUME Inv, NEW h \in Handler, ReadPointer(h) PROVE Inv'
<1>1. PICK c : c = cmd[h]
  OBVIOUS
<1>2. PICK r : r = Pointer(c.key, c.of)
  OBVIOUS
<1>3. c.at = "pointer" /\ Sound(c, party, accepted, blocks)
  BY <1>1, HandlerSound DEF ReadPointer
<1>4. c.of \in Peer /\ c.key \in {"sess", "out", "in"}
  BY <1>3 DEF Sound, Placed, Lookups, Commands
<1>5. r = None \/ (Known(r, party) /\ (c.key = "sess" => Party(c.of, r, party)))
  BY <1>2, <1>4 DEF Pointer, Inv, Pointers
<1>6. CASE r = None
  <2>1. Go(h, Missing([c EXCEPT !.id = None]))
    BY <1>1, <1>2, <1>6 DEF ReadPointer
  <2>2. Resumes(Missing([c EXCEPT !.id = None]), party, accepted, blocks)
    BY <1>3, HandlerSound, MissingSound
  <2> QED
    BY <2>1, <2>2, GoOnlyKeeps, HandlerSound DEF ReadPointer, keys, Pointers
<1>7. CASE r # None
  <2>1. Go(h, To([c EXCEPT !.id = r], "row"))
    BY <1>1, <1>2, <1>7 DEF ReadPointer
  <2>2. Resumes(To([c EXCEPT !.id = r], "row"), party, accepted, blocks)
    BY <1>3, <1>5, <1>7, RowNext DEF Resumes
  <2> QED
    BY <2>1, <2>2, GoOnlyKeeps, HandlerSound DEF ReadPointer, keys, Pointers
<1> QED
  BY <1>6, <1>7

LEMMA ReadRowKeeps ==
    ASSUME Inv, NEW h \in Handler, ReadRow(h) PROVE Inv'
<1>1. PICK c : c = cmd[h]
  OBVIOUS
<1>2. c.at = "row" /\ Sound(c, party, accepted, blocks)
  BY <1>1, HandlerSound DEF ReadRow
<1>3. CASE c.id \in Rows(c.key)
  <2>1. Go(h, Found(c))
    BY <1>1, <1>3 DEF ReadRow
  <2>2. c.key = "sess" => c.id \in accepted
    BY <1>3 DEF Rows, Inv, Tables
  <2>3. Resumes(Found(c), party, accepted, blocks)
    BY <1>2, <2>2, FoundSound, HandlerSound
  <2> QED
    BY <2>1, <2>3, GoOnlyKeeps, HandlerSound DEF ReadRow, keys, Pointers
<1>4. CASE c.id \notin Rows(c.key)
  <2>1. Go(h, To(c, "drop"))
    BY <1>1, <1>4 DEF ReadRow
  <2>2. Resumes(To(c, "drop"), party, accepted, blocks)
    BY <1>2, ToSound DEF Resumes
  <2> QED
    BY <2>1, <2>2, GoOnlyKeeps, HandlerSound DEF ReadRow, keys, Pointers
<1> QED
  BY <1>3, <1>4

LEMMA DropPointerKeeps ==
    ASSUME Inv, NEW h \in Handler, DropPointer(h) PROVE Inv'
<1>1. PICK c : c = cmd[h]
  OBVIOUS
<1>2. c.at = "drop" /\ Sound(c, party, accepted, blocks)
  BY <1>1, HandlerSound DEF DropPointer
<1>3. Go(h, Missing([c EXCEPT !.id = None]))
  BY <1>1 DEF DropPointer
<1>4. Resumes(Missing([c EXCEPT !.id = None]), party, accepted, blocks)
  BY <1>2, HandlerSound, MissingSound
<1>5. Pointers'
  BY HandlerSound DEF Pointers, DropPointer
<1> QED
  BY <1>3, <1>4, <1>5, GoOnlyKeeps DEF DropPointer

\* A DEL leaves no pointer that was not there.
LEMMA EraseKeeps ==
    ASSUME NEW k \in [Peer -> Id \cup {None}], NEW S
    PROVE  /\ Erase(k, S) \in [Peer -> Id \cup {None}]
           /\ \A p \in Peer : Erase(k, S)[p] \in {k[p], None}
BY DEF Erase

\* Where a deleted request leaves the command.
LEMMA AfterDelete ==
    ASSUME NEW c, NEW A, NEW B, Sound(c, party, A, B), Tables, c.at = "delete", NEW A2,
           c.op = "accepting" => c.id \in A2, A \subseteq A2, \A r \in A : Known(r, party)
    PROVE  /\ c.op = "accepting" => Sound(Lookup(c, "sess", party[c.id][1]), party, A2, B)
           /\ c.op = "block" => Resumes(EndNext(c), party, A2, B)
<1> USE DEF Sound
<1>1. Sound(c, party, A2, B)
  BY SoundGrows
<1>2. ASSUME c.op = "block" PROVE Resumes(EndNext(c), party, A2, B)
  BY <1>1, <1>2, EndNextSound
<1>3. ASSUME c.op = "accepting" PROVE Sound(Lookup(c, "sess", party[c.id][1]), party, A2, B)
  <2>0. party[c.id][1] \in Peer /\ c.req = c.id
    BY <1>3 DEF Founded, Known, Tables
  <2> DEFINE d == [c EXCEPT !.at = "pointer", !.key = "sess", !.of = party[c.id][1]]
  <2>1. d \in Commands
    BY <2>0 DEF Commands, Ops, Ats, Lookups, Creation
  <2>2. /\ d.at = "pointer" /\ d.key = "sess" /\ d.of = party[c.id][1] /\ d.op = "accepting"
        /\ d.me = c.me /\ d.with = c.with /\ d.old = c.old /\ d.barred = c.barred /\ d.req = c.id
    BY <1>3, <2>0 DEF Commands
  <2> HIDE DEF d
  <2>3. Placed(d)
    BY <1>3, <2>0, <2>2 DEF Placed, Lookups, Creation
  <2>4. Founded(d, party, A2)
    BY <1>1, <1>3, <2>2 DEF Founded, Lookups, Creation
  <2>5. Warned(d, B)
    BY <1>3, <2>2 DEF Warned, Lookups, Creation
  <2> QED
    BY <2>1, <2>3, <2>4, <2>5 DEF Lookup, d
<1> QED
  BY <1>2, <1>3

LEMMA DeleteRequestKeeps ==
    ASSUME Inv, NEW h \in Handler, DeleteRequest(h) PROVE Inv'
<1>1. PICK c : c = cmd[h]
  OBVIOUS
<1>2. c.at = "delete" /\ Sound(c, party, accepted, blocks)
  BY <1>1, HandlerSound DEF DeleteRequest
<1>3. /\ accepted' = IF c.op = "accepting" THEN accepted \cup {c.id} ELSE accepted
      /\ UNCHANGED <<sess, live, party, blocks>> /\ open' = open \ {c.id}
      /\ from' = Erase(from, {party[c.id][1]}) /\ to' = Erase(to, {party[c.id][2]})
      /\ Go(h, CASE c.op = "accepting" -> Lookup(c, "sess", party[c.id][1])
                   [] c.op = "block" -> EndNext(c)
                   [] OTHER -> To(c, "done"))
  BY <1>1 DEF DeleteRequest
<1>4. Known(c.id, party)
  BY <1>2 DEF Sound, Founded
<1>5. Pointers'
  BY <1>3, EraseKeeps, HandlerSound DEF Pointers
<1>6. /\ c.op = "accepting" => Sound(Lookup(c, "sess", party[c.id][1]), party, accepted', blocks)
      /\ c.op = "block" => Resumes(EndNext(c), party, accepted', blocks)
  BY <1>2, <1>3, AfterDelete, HandlerSound
<1>7. To(c, "done").at = "done"
  BY <1>2 DEF To, Sound, Commands
<1>8. PICK d : d = (CASE c.op = "accepting" -> Lookup(c, "sess", party[c.id][1])
                      [] c.op = "block" -> EndNext(c)
                      [] OTHER -> To(c, "done"))
  OBVIOUS
<1>9. Resumes(d, party, accepted', blocks)
  BY <1>6, <1>7, <1>8 DEF Resumes
<1>10. Go(h, d)
  BY <1>3, <1>8
<1>11. Inv /\ Tables
  BY DEF Inv
<1> QED
  BY <1>3, <1>4, <1>5, <1>9, <1>10, <1>11, GoKeeps DEF Tables

LEMMA DeleteSessionKeeps ==
    ASSUME Inv, NEW h \in Handler, DeleteSession(h) PROVE Inv'
<1>1. PICK c : c = cmd[h]
  OBVIOUS
<1>2. c.at = "kill" /\ Sound(c, party, accepted, blocks)
  BY <1>1, HandlerSound DEF DeleteSession
<1>3. UNCHANGED <<from, to, open, party, blocks, accepted>> /\ Inv /\ Tables
  BY DEF DeleteSession, Inv
<1>4. ASSUME NEW S, sess' = Erase(sess, S) PROVE Pointers'
  BY <1>3, <1>4, EraseKeeps, HandlerSound DEF Pointers
<1>5. ASSUME NEW d, Go(h, d), Resumes(d, party, accepted, blocks), Pointers', live' \subseteq live
      PROVE  Inv'
  BY <1>3, <1>5, GoKeeps DEF Tables
<1>6. CASE c.op = "accepting" /\ c.old = {}
  <2>1. Go(h, To(c, "save")) /\ UNCHANGED <<sess, live>>
    BY <1>1, <1>6 DEF DeleteSession
  <2>2. Resumes(To(c, "save"), party, accepted, blocks)
    BY <1>2, <1>6, ToSound DEF Resumes
  <2>3. Pointers'
    BY <1>3, <2>1, HandlerSound DEF Pointers
  <2> QED
    BY <1>5, <2>1, <2>2, <2>3
<1>7. CASE c.op = "accepting" /\ c.old # {}
  <2>1. PICK r \in c.old : /\ sess' = Erase(sess, Ends(r)) /\ live' = live \ {r}
                           /\ Go(h, [c EXCEPT !.old = @ \ {r}])
    BY <1>1, <1>7 DEF DeleteSession
  <2> DEFINE d == [c EXCEPT !.old = @ \ {r}]
  <2>2. d \in Commands
    BY <1>2 DEF Sound, Commands
  <2>3. /\ d.at = c.at /\ d.key = c.key /\ d.op = c.op /\ d.of = c.of /\ d.id = c.id
        /\ d.me = c.me /\ d.with = c.with /\ d.old \subseteq c.old /\ d.barred = c.barred /\ d.req = c.req
    BY <1>2 DEF Sound, Commands
  <2>4. Go(h, d)
    BY <2>1
  <2> HIDE DEF d
  <2>5. Placed(d)
    BY <1>2, <2>3 DEF Sound, Placed, Lookups, Creation
  <2>6. Founded(d, party, accepted) /\ Warned(d, blocks)
    BY <1>2, <1>7, <2>3 DEF Sound, Founded, Warned, Lookups, Creation
  <2>7. Resumes(d, party, accepted, blocks)
    BY <2>2, <2>5, <2>6 DEF Sound, Resumes
  <2> QED
    BY <1>4, <1>5, <2>1, <2>4, <2>7
<1>8. CASE c.op # "accepting"
  <2>1. /\ sess' = Erase(sess, Ends(c.id)) /\ live' = live \ {c.id}
        /\ Go(h, IF c.op = "block" THEN EndNext(c) ELSE To(c, "done"))
    BY <1>1, <1>8 DEF DeleteSession
  <2>2. To(c, "done").at = "done"
    BY <1>2 DEF To, Sound, Commands
  <2>3. c.op = "block" => Resumes(EndNext(c), party, accepted, blocks)
    BY <1>2, EndNextSound
  <2>4. Resumes(IF c.op = "block" THEN EndNext(c) ELSE To(c, "done"), party, accepted, blocks)
    BY <2>2, <2>3 DEF Resumes
  <2> QED
    BY <1>4, <1>5, <2>1, <2>4
<1> QED
  BY <1>6, <1>7, <1>8

LEMMA CheckBlockedKeeps ==
    ASSUME Inv, NEW h \in Handler, CheckBlocked(h) PROVE Inv'
<1>1. PICK c : c = cmd[h]
  OBVIOUS
<1>2. c.at = "blocked" /\ Sound(c, party, accepted, blocks) /\ c \in Commands
  BY <1>1, HandlerSound DEF CheckBlocked, Sound
<1>3. c.op \in {"at", "accept"} /\ To(c, "done").at = "done" /\ c.me \in Peer
  BY <1>2 DEF To, Sound, Commands, Placed
<1>4. Pointers' /\ UNCHANGED <<open, live, party, accepted, blocks>>
  BY HandlerSound DEF CheckBlocked, keys, Pointers
<1>5. CASE c.op = "at" /\ BlockedEitherWay(c.me, c.with)
  <2>1. Go(h, To(c, "done"))
    BY <1>1, <1>5 DEF CheckBlocked
  <2> QED
    BY <1>3, <1>4, <2>1, GoOnlyKeeps DEF Resumes
<1>6. CASE c.op = "at" /\ ~BlockedEitherWay(c.me, c.with)
  <2>1. Go(h, To(c, "check"))
    BY <1>1, <1>6 DEF CheckBlocked
  <2>2. Sound(To(c, "check"), party, accepted, blocks)
    BY <1>2, <1>6, ToSound DEF BlockedEitherWay
  <2> QED
    BY <1>4, <2>1, <2>2, GoOnlyKeeps DEF Resumes
<1>7. CASE c.op = "accept" /\ BlockedEitherWay(c.me, party[c.id][1])
  <2>1. Go(h, To(c, "delete"))
    BY <1>1, <1>7 DEF CheckBlocked
  <2>2. Known(c.id, party)
    BY <1>2, <1>7 DEF Sound, Founded
  <2>3. Sound(To(c, "delete"), party, accepted, blocks)
    BY <1>2, <1>7, <2>2, ToSound
  <2> QED
    BY <1>4, <2>1, <2>3, GoOnlyKeeps DEF Resumes
<1>8. CASE c.op = "accept" /\ ~BlockedEitherWay(c.me, party[c.id][1])
  <2> DEFINE d == [c EXCEPT !.op = "accepting", !.id = None, !.at = "pointer", !.key = "in", !.of = c.me]
  <2>1. d \in Commands /\ Lookup([c EXCEPT !.op = "accepting", !.id = None], "in", c.me) = d
    BY <1>2, <1>3 DEF Commands, Ops, Ats, Lookups, Creation, Lookup
  <2>2. /\ d.at = "pointer" /\ d.key = "in" /\ d.op = "accepting" /\ d.of = c.me /\ d.id = None
        /\ d.me = c.me /\ d.with = c.with /\ d.old = c.old /\ d.barred = c.barred
    BY <1>2 DEF Commands
  <2>3. Go(h, d)
    BY <1>1, <1>8, <2>1 DEF CheckBlocked
  <2> HIDE DEF d
  <2>4. Placed(d)
    BY <1>3, <2>2 DEF Placed, Lookups, Creation
  <2>5. Founded(d, party, accepted) /\ Warned(d, blocks)
    BY <1>2, <2>2 DEF Sound, Founded, Warned, Lookups, Creation
  <2>6. Resumes(d, party, accepted, blocks)
    BY <2>1, <2>4, <2>5 DEF Sound, Resumes
  <2> QED
    BY <1>4, <2>3, <2>6, GoOnlyKeeps
<1> QED
  BY <1>3, <1>5, <1>6, <1>7, <1>8

LEMMA CheckFreeKeeps ==
    ASSUME Inv, NEW h \in Handler, CheckFree(h) PROVE Inv'
<1>1. PICK c : c = cmd[h]
  OBVIOUS
<1>2. c.at = "check" /\ Sound(c, party, accepted, blocks) /\ c \in Commands
  BY <1>1, HandlerSound DEF CheckFree, Sound
<1>3. UNCHANGED <<from, to, sess, open, live, blocks, accepted>> /\ Tables /\ Pointers
  BY HandlerSound DEF CheckFree, keys
<1>4. c.op = "at" /\ c.me \in Peer /\ c.with \in Peer
  BY <1>2 DEF Sound, Placed, Creation
<1>5. CASE PeerBusy(c.me) \/ PeerBusy(c.with)
  <2>1. Go(h, To(c, "done")) /\ UNCHANGED party /\ To(c, "done").at = "done"
    BY <1>1, <1>2, <1>5 DEF CheckFree, To, Commands
  <2> QED
    BY <1>3, <2>1, GoOnlyKeeps DEF Pointers, Resumes
<1>6. CASE ~(PeerBusy(c.me) \/ PeerBusy(c.with))
  <2>1. PICK r \in Id : /\ r \notin Used /\ party' = [party EXCEPT ![r] = <<c.me, c.with>>]
                        /\ Go(h, To([c EXCEPT !.id = r], "from"))
    BY <1>1, <1>6 DEF CheckFree
  <2>2. party[r] = None
    BY <2>1 DEF Used
  <2>3. /\ party' \in [Id -> (Peer \X Peer) \cup {None}] /\ party'[r] = <<c.me, c.with>>
        /\ party'[r] # None /\ \A s \in Id : Known(s, party) => party'[s] = party[s]
    BY <1>3, <1>4, <2>1, <2>2, Distinct DEF Tables, Known
  <2>4. \A s : Known(s, party) => Known(s, party') /\ \A p : Party(p, s, party) => Party(p, s, party')
    BY <2>3 DEF Known, Party
  <2>5. Pointers'
    BY <1>3, <2>4 DEF Pointers
  <2> DEFINE d == [c EXCEPT !.id = r, !.at = "from"]
  <2>6. d \in Commands /\ To([c EXCEPT !.id = r], "from") = d
    BY <1>2 DEF Commands, Ops, Ats, Lookups, Creation, To
  <2>7. /\ d.at = "from" /\ d.key = c.key /\ d.op = "at" /\ d.of = c.of /\ d.id = r
        /\ d.me = c.me /\ d.with = c.with /\ d.old = c.old /\ d.barred = c.barred
    BY <1>2, <1>4 DEF Commands
  <2>8. Go(h, d)
    BY <2>1, <2>6
  <2> HIDE DEF d
  <2>9. Placed(d)
    BY <1>4, <2>7 DEF Placed, Lookups, Creation
  <2>10. Founded(d, party', accepted)
    BY <1>2, <2>1, <2>3, <2>4, <2>7 DEF Sound, Founded, Known, Lookups, Creation
  <2>11. Warned(d, blocks)
    BY <1>2, <1>4, <2>7 DEF Sound, Warned, Creation
  <2>12. Resumes(d, party', accepted', blocks')
    BY <1>3, <2>6, <2>9, <2>10, <2>11 DEF Sound, Resumes
  <2> QED
    BY <1>3, <2>3, <2>4, <2>5, <2>8, <2>12, GoKeeps DEF Tables
<1> QED
  BY <1>5, <1>6

LEMMA SetFromKeeps ==
    ASSUME Inv, NEW h \in Handler, SetFrom(h) PROVE Inv'
<1>1. PICK c : c = cmd[h]
  OBVIOUS
<1>2. c.at = "from" /\ Sound(c, party, accepted, blocks)
  BY <1>1, HandlerSound DEF SetFrom
<1>3. UNCHANGED <<to, sess, open, live, party, blocks, accepted>> /\ Pointers
  BY HandlerSound DEF SetFrom
<1>4. Known(c.id, party) /\ c.me \in Peer /\ To(c, "done").at = "done"
  BY <1>2 DEF Sound, Founded, Placed, Creation, To, Commands
<1>5. Sound(To(c, "to"), party, accepted, blocks)
  BY <1>2, ToSound
<1>6. Go(h, To(c, "to")) \/ Go(h, To(c, "done"))
  BY <1>1 DEF SetFrom
<1>7. Pointers'
  BY <1>1, <1>3, <1>4 DEF SetFrom, Pointers, Known
<1> QED
  BY <1>3, <1>4, <1>5, <1>6, <1>7, GoOnlyKeeps DEF Resumes

LEMMA SetToKeeps ==
    ASSUME Inv, NEW h \in Handler, SetTo(h) PROVE Inv'
<1>1. PICK c : c = cmd[h]
  OBVIOUS
<1>2. c.at = "to" /\ Sound(c, party, accepted, blocks)
  BY <1>1, HandlerSound DEF SetTo
<1>3. UNCHANGED <<from, sess, open, live, party, blocks, accepted>> /\ Pointers
  BY HandlerSound DEF SetTo
<1>4. Known(c.id, party) /\ c.with \in Peer
  BY <1>2 DEF Sound, Founded, Placed, Creation
<1>5. Sound(To(c, "request"), party, accepted, blocks) /\ Sound(To(c, "undo"), party, accepted, blocks)
  BY <1>2, ToSound
<1>6. Go(h, To(c, "request")) \/ Go(h, To(c, "undo"))
  BY <1>1 DEF SetTo
<1>7. Pointers'
  BY <1>1, <1>3, <1>4 DEF SetTo, Pointers, Known
<1> QED
  BY <1>3, <1>5, <1>6, <1>7, GoOnlyKeeps DEF Resumes

LEMMA UndoFromKeeps ==
    ASSUME Inv, NEW h \in Handler, UndoFrom(h) PROVE Inv'
<1>1. Sound(cmd[h], party, accepted, blocks) /\ Pointers
  BY HandlerSound
<1>2. Go(h, To(cmd[h], "done")) /\ To(cmd[h], "done").at = "done"
  BY <1>1 DEF UndoFrom, To, Sound, Commands
<1>3. Pointers'
  BY <1>1, EraseKeeps DEF UndoFrom, Pointers
<1> QED
  BY <1>2, <1>3, GoOnlyKeeps DEF UndoFrom, Resumes

LEMMA SaveRequestKeeps ==
    ASSUME Inv, NEW h \in Handler, SaveRequest(h) PROVE Inv'
<1>1. Sound(cmd[h], party, accepted, blocks) /\ Pointers /\ Tables
  BY HandlerSound
<1>2. Go(h, To(cmd[h], "done")) /\ To(cmd[h], "done").at = "done"
  BY <1>1 DEF SaveRequest, To, Sound, Commands
<1>3. Known(cmd[h].id, party)
  BY <1>1 DEF SaveRequest, Sound, Founded
<1>4. Pointers'
  BY <1>1 DEF SaveRequest, Pointers
<1> QED
  BY <1>1, <1>2, <1>3, <1>4, GoKeeps DEF SaveRequest, Tables, Resumes

LEMMA SaveSessionKeeps ==
    ASSUME Inv, NEW h \in Handler, SaveSession(h) PROVE Inv'
<1>1. Sound(cmd[h], party, accepted, blocks) /\ Pointers /\ Tables
  BY HandlerSound
<1>2. Go(h, To(cmd[h], "first")) /\ cmd[h].at = "save"
  BY DEF SaveSession
<1>3. cmd[h].req \in accepted
  BY <1>1, <1>2 DEF Sound, Founded
<1>4. Pointers'
  BY <1>1 DEF SaveSession, Pointers
<1>5. Sound(To(cmd[h], "first"), party, accepted, blocks)
  BY <1>1, <1>2, ToSound
<1> QED
  BY <1>1, <1>2, <1>3, <1>5, <1>4, GoKeeps DEF SaveSession, Tables, Resumes

LEMMA SetPointerKeeps ==
    ASSUME Inv, NEW h \in Handler, SetPointer(h) PROVE Inv'
<1>1. PICK c : c = cmd[h]
  OBVIOUS
<1>2. c.at \in {"first", "second"} /\ Sound(c, party, accepted, blocks)
  BY <1>1, HandlerSound DEF SetPointer
<1>3. UNCHANGED <<from, to, open, live, party, blocks, accepted>> /\ Pointers /\ Tables
  BY HandlerSound DEF SetPointer
<1>4. c.req \in accepted /\ Known(c.req, party) /\ To(c, "done").at = "done"
  BY <1>2, HandlerSound DEF Sound, Founded, To, Commands
<1>5. \E p \in {party[c.req][1], party[c.req][2]} : sess' = [sess EXCEPT ![p] = c.req]
  BY <1>1 DEF SetPointer
<1>6. Pointers'
  BY <1>3, <1>4, <1>5 DEF Pointers, Known, Party
<1>7. \/ Go(h, To(c, "second")) /\ c.at = "first"
      \/ Go(h, To(c, "done"))
  BY <1>1 DEF SetPointer
<1>8. c.at = "first" => Sound(To(c, "second"), party, accepted, blocks)
  BY <1>2, ToSound
<1> QED
  BY <1>3, <1>4, <1>6, <1>7, <1>8, GoOnlyKeeps DEF Resumes

LEMMA TouchKeeps ==
    ASSUME Inv, NEW h \in Handler, Touch(h) PROVE Inv'
<1>1. PICK r : r = cmd[h].id
  OBVIOUS
<1>2. /\ cmd[h].at = "touch" /\ live' = live \cup {r}
      /\ sess' = [p \in Peer |-> IF p \in Ends(r) THEN r ELSE sess[p]]
      /\ Go(h, To(cmd[h], "done")) /\ UNCHANGED <<from, to, open, party, blocks, accepted>>
  BY <1>1 DEF Touch
<1>3. Sound(cmd[h], party, accepted, blocks) /\ Pointers /\ Tables
  BY HandlerSound
<1>4. r \in accepted /\ Known(r, party) /\ To(cmd[h], "done").at = "done"
  BY <1>1, <1>2, <1>3, HandlerSound DEF Sound, Founded, To, Commands
<1>5. Pointers'
  BY <1>2, <1>3, <1>4 DEF Pointers, Known, Party, Ends
<1> QED
  BY <1>2, <1>3, <1>4, <1>5, GoKeeps DEF Tables, Resumes

LEMMA AddBlockKeeps ==
    ASSUME Inv, NEW h \in Handler, AddBlock(h) PROVE Inv'
<1>1. PICK c : c = cmd[h]
  OBVIOUS
<1>2. c.at = "sadd" /\ Sound(c, party, accepted, blocks) /\ c \in Commands /\ Pointers /\ Tables
  BY <1>1, HandlerSound DEF AddBlock, Sound
<1>3. c.op = "block" /\ c.me \in Peer /\ c.with \in Peer
  BY <1>2 DEF Sound, Placed
<1>4. /\ blocks' = blocks \cup {<<c.me, c.with>>} /\ Go(h, Lookup(c, "sess", c.me))
      /\ UNCHANGED <<from, to, sess, open, live, party, accepted>>
  BY <1>1 DEF AddBlock, keys
<1> DEFINE d == [c EXCEPT !.at = "pointer", !.key = "sess", !.of = c.me]
<1>5. d \in Commands /\ Go(h, d)
  BY <1>2, <1>3, <1>4 DEF Commands, Ops, Ats, Lookups, Creation, Lookup
<1>6. /\ d.at = "pointer" /\ d.key = "sess" /\ d.op = "block" /\ d.of = c.me
      /\ d.me = c.me /\ d.with = c.with /\ d.old = c.old /\ d.barred = c.barred
  BY <1>2, <1>3 DEF Commands
<1> HIDE DEF d
<1>7. Placed(d)
  BY <1>3, <1>6 DEF Placed, Lookups, Creation
<1>8. Founded(d, party, accepted) /\ Warned(d, blocks')
  BY <1>2, <1>4, <1>6 DEF Sound, Founded, Warned, Lookups, Creation
<1>9. Resumes(d, party', accepted', blocks')
  BY <1>4, <1>5, <1>7, <1>8 DEF Sound, Resumes
<1>10. Pointers'
  BY <1>2, <1>4 DEF Pointers
<1>11. /\ party' = party /\ open' = open /\ live' = live /\ accepted' = accepted
       /\ blocks \subseteq blocks' /\ blocks' \subseteq Peer \X Peer
  BY <1>2, <1>3, <1>4 DEF Tables
<1> QED
  BY <1>2, <1>5, <1>9, <1>10, <1>11, GoKeeps DEF Tables

\* A command that begins keeps in mind the blocks that are complete.
LEMMA BeginKeeps ==
    ASSUME Inv, NEW h \in Handler, NEW c, Begin(h, c), Sound(c, party, accepted, blocks),
           c.at \notin Creation
    PROVE  Inv'
<1>1. cmd' = [cmd EXCEPT ![h] = [c EXCEPT !.barred = barred]] /\ mixed' = Mixed(cmd', Fading)
  BY DEF Begin, Become
<1>2. UNCHANGED <<from, to, sess, open, live, party, blocks, accepted, barred>>
  BY DEF Begin, keys
<1>3. PICK d : d = [c EXCEPT !.barred = barred]
  OBVIOUS
<1>4. c \in Commands /\ barred \subseteq blocks /\ blocks \subseteq Peer \X Peer
  BY DEF Inv, Tables, Sound
<1>5. d \in Commands
  BY <1>3, <1>4 DEF Commands
<1>6. /\ d.at = c.at /\ d.key = c.key /\ d.op = c.op /\ d.of = c.of /\ d.id = c.id
      /\ d.me = c.me /\ d.with = c.with /\ d.old = c.old /\ d.barred = barred /\ d.req = c.req
  BY <1>3, <1>4 DEF Commands
<1>7. Placed(d)
  BY <1>6 DEF Sound, Placed, Lookups, Creation
<1>8. Founded(d, party, accepted) /\ Warned(d, blocks)
  BY <1>4, <1>6 DEF Sound, Founded, Warned, Lookups, Creation
<1>9. Sound(d, party, accepted, blocks)
  BY <1>5, <1>7, <1>8 DEF Sound
<1>10. cmd' = [cmd EXCEPT ![h] = d] /\ cmd \in [Handler -> Commands]
  BY <1>1, <1>3 DEF Inv, Handlers
<1>11. cmd' \in [Handler -> Commands] /\ \A g \in Handler : Sound(cmd'[g], party, accepted, blocks)
  BY <1>5, <1>9, <1>10 DEF Inv, Handlers
<1>12. mixed' \subseteq Peer
  BY <1>1, <1>11, MixedPeers DEF Inv
<1> QED
  BY <1>2, <1>11, <1>12 DEF Inv, Pointers, Tables, Handlers

\* The commands as they begin.
LEMMA Beginnings ==
    ASSUME NEW p \in Peer, NEW q \in Peer
    PROVE  /\ Sound(Lookup(Command("at", p, q), "sess", p), party, accepted, blocks)
           /\ \A op \in {"accept", "reject"} :
                 Sound(Lookup(Command(op, p, None), "in", p), party, accepted, blocks)
           /\ Sound(Lookup(Command("cancel", p, None), "out", p), party, accepted, blocks)
           /\ \A op \in {"disconnect", "relay"} :
                 Sound(Lookup(Command(op, p, None), "sess", p), party, accepted, blocks)
           /\ Sound(To(Command("block", p, q), "sadd"), party, accepted, blocks)
<1>1. PICK n : n = Nothing
  OBVIOUS
<1>2. /\ n \in Commands /\ n.at = "done" /\ n.old = {} /\ n.barred = {} /\ n.id = None
  BY <1>1 DEF Nothing, Commands, Ops, Ats, Lookups, Creation
<1>3. ASSUME NEW op \in {"at", "accept", "reject", "cancel", "disconnect", "relay"},
             NEW with \in {q, None}, op = "at" => with = q,
             NEW key \in {"sess", "out", "in"},
             op \in {"accept", "reject"} => key = "in", op = "cancel" => key = "out",
             op \in {"disconnect", "relay"} => key = "sess"
      PROVE  Sound(Lookup(Command(op, p, with), key, p), party, accepted, blocks)
  <2>1. PICK c : c = [n EXCEPT !.op = op, !.me = p, !.with = with]
    OBVIOUS
  <2>2. /\ c \in Commands /\ c.op = op /\ c.me = p /\ c.with = with /\ c.old = {} /\ c.barred = {}
    BY <1>2, <1>3, <2>1 DEF Commands, Ops
  <2>3. PICK d : d = [c EXCEPT !.at = "pointer", !.key = key, !.of = p]
    OBVIOUS
  <2>4. /\ d \in Commands /\ d.op = op /\ d.me = p /\ d.with = with /\ d.old = {} /\ d.barred = {}
        /\ d.at = "pointer" /\ d.key = key /\ d.of = p
    <3>1. "pointer" \in Ats
      BY DEF Ats, Lookups
    <3> QED
      BY <1>3, <2>2, <2>3, <3>1 DEF Commands
  <2>5. Lookup(Command(op, p, with), key, p) = d
    <3>1. Command(op, p, with) = c
      BY <1>1, <2>1 DEF Command
    <3> QED
      BY <2>3, <3>1 DEF Lookup
  <2>6. Placed(d)
    BY <1>3, <2>4 DEF Placed, Lookups, Creation
  <2>7. Founded(d, party, accepted) /\ Warned(d, blocks)
    BY <2>4 DEF Founded, Warned, Lookups, Creation
  <2> QED
    BY <2>4, <2>5, <2>6, <2>7 DEF Sound
<1>4. Sound(To(Command("block", p, q), "sadd"), party, accepted, blocks)
  <2>1. PICK c : c = [n EXCEPT !.op = "block", !.me = p, !.with = q]
    OBVIOUS
  <2>2. /\ c \in Commands /\ c.op = "block" /\ c.me = p /\ c.with = q /\ c.old = {} /\ c.barred = {}
    BY <1>2, <2>1 DEF Commands, Ops
  <2>3. PICK d : d = [c EXCEPT !.at = "sadd"]
    OBVIOUS
  <2>4. /\ d \in Commands /\ d.op = "block" /\ d.me = p /\ d.with = q /\ d.old = {} /\ d.barred = {}
        /\ d.at = "sadd"
    BY <2>2, <2>3 DEF Commands, Ats
  <2>5. To(Command("block", p, q), "sadd") = d
    BY <1>1, <2>1, <2>3 DEF Command, To
  <2>6. Placed(d)
    BY <2>4 DEF Placed, Lookups, Creation
  <2>7. Founded(d, party, accepted) /\ Warned(d, blocks)
    BY <2>4 DEF Founded, Warned, Lookups, Creation
  <2> QED
    BY <2>4, <2>5, <2>6, <2>7 DEF Sound
<1> QED
  BY <1>3, <1>4

LEMMA CommandsKeep ==
    ASSUME Inv, NEW p \in Peer, NEW q \in Peer, NEW h \in Handler, NEW op,
           \/ At(p, q) \/ Block(h, p, q) \/ Cancel(p)
           \/ op \in {"accept", "reject"} /\ Answer(p, op)
           \/ op \in {"disconnect", "relay"} /\ InSession(p, op)
    PROVE  Inv'
<1> USE Beginnings
<1>0. p \in Handler
  BY DEF Handler
<1>1. /\ \A key, o, w : Lookup(Command(o, p, w), key, p).at \notin Creation
      /\ To(Command("block", p, q), "sadd").at \notin Creation
  BY DEF Lookup, Command, To, Nothing, Creation
<1>2. CASE At(p, q)
  BY <1>0, <1>1, <1>2, BeginKeeps DEF At
<1>3. CASE Block(h, p, q)
  BY <1>0, <1>1, <1>3, BeginKeeps DEF Block
<1>4. CASE Cancel(p)
  BY <1>0, <1>1, <1>4, BeginKeeps DEF Cancel
<1>5. CASE op \in {"accept", "reject"} /\ Answer(p, op)
  BY <1>0, <1>1, <1>5, BeginKeeps DEF Answer
<1>6. CASE op \in {"disconnect", "relay"} /\ InSession(p, op)
  BY <1>0, <1>1, <1>6, BeginKeeps DEF InSession
<1> QED
  BY <1>2, <1>3, <1>4, <1>5, <1>6

\* Lifting a block takes it out of what is complete everywhere.
LEMMA UnblockKeeps ==
    ASSUME Inv, NEW p \in Peer, NEW q \in Peer, Unblock(p, q) PROVE Inv'
<1>1. /\ blocks' = blocks \ {<<p, q>>} /\ barred' = barred \ {<<p, q>>}
      /\ cmd' = [h \in Handler |-> [cmd[h] EXCEPT !.barred = @ \ {<<p, q>>}]]
      /\ mixed' = Mixed(cmd', Fading)
      /\ UNCHANGED <<from, to, sess, open, live, party, accepted>>
  BY DEF Unblock, Become, keys
<1>2. ASSUME NEW h \in Handler
      PROVE  cmd'[h] \in Commands /\ Sound(cmd'[h], party, accepted, blocks')
  <2>1. PICK c : c = cmd[h]
    OBVIOUS
  <2>2. PICK d : d = [c EXCEPT !.barred = @ \ {<<p, q>>}]
    OBVIOUS
  <2>3. cmd'[h] = d
    BY <1>1, <2>1, <2>2
  <2>4. Sound(c, party, accepted, blocks) /\ c \in Commands
    BY <2>1 DEF Inv, Handlers
  <2>5. d \in Commands
    BY <2>2, <2>4 DEF Commands
  <2>6. /\ d.at = c.at /\ d.key = c.key /\ d.op = c.op /\ d.of = c.of /\ d.id = c.id
        /\ d.me = c.me /\ d.with = c.with /\ d.old = c.old /\ d.req = c.req
        /\ d.barred = c.barred \ {<<p, q>>}
    BY <2>2, <2>4 DEF Commands
  <2>7. Placed(d)
    BY <2>4, <2>6 DEF Sound, Placed, Lookups, Creation
  <2>8. Founded(d, party, accepted)
    BY <2>4, <2>6 DEF Sound, Founded, Lookups, Creation
  <2>9. Warned(d, blocks')
    BY <1>1, <2>4, <2>6 DEF Sound, Warned, Creation
  <2> QED
    BY <2>3, <2>5, <2>7, <2>8, <2>9 DEF Sound
<1>3. cmd' \in [Handler -> Commands]
  BY <1>1, <1>2
<1>4. mixed' \subseteq Peer
  BY <1>1, <1>3, MixedPeers DEF Inv
<1> QED
  BY <1>1, <1>2, <1>3, <1>4 DEF Inv, Pointers, Tables, Handlers

\* A key that expires is gone, and nothing else.
LEMMA ExpireKeeps ==
    ASSUME Inv, NEW r \in Id, Expire(r) PROVE Inv'
<1>1. UNCHANGED <<party, blocks, cmd, accepted, barred>> /\ Pointers /\ Tables
  BY DEF Expire, Inv
<1>2. /\ from' = from \/ \E p \in Peer : from[p] = r /\ from' = Erase(from, {p})
      /\ to' = to \/ \E p \in Peer : to' = Erase(to, {p})
      /\ sess' = sess \/ \E p \in Peer : sess' = Erase(sess, {p})
      /\ open' \subseteq open /\ live' \subseteq live
  <2>1. CASE ExpireRequest(r) /\ UNCHANGED <<sess, live>>
    <3>1. /\ from' = from \/ \E p \in Peer : from[p] = r /\ from' = Erase(from, {p})
          /\ to' = to \/ \E p \in Peer : to' = Erase(to, {p})
          /\ open' \subseteq open
      BY <2>1 DEF ExpireRequest
    <3> QED
      BY <2>1, <3>1
  <2>2. CASE ExpireSession(r) /\ UNCHANGED <<from, to, open>>
    BY <2>2 DEF ExpireSession
  <2> QED
    BY <2>1, <2>2 DEF Expire
<1>3. Pointers'
  <2>1. from' \in [Peer -> Id \cup {None}] /\ \A p \in Peer : from'[p] \in {from[p], None}
    BY <1>1, <1>2 DEF Pointers, Erase
  <2>2. to' \in [Peer -> Id \cup {None}] /\ \A p \in Peer : to'[p] \in {to[p], None}
    BY <1>1, <1>2 DEF Pointers, Erase
  <2>3. sess' \in [Peer -> Id \cup {None}] /\ \A p \in Peer : sess'[p] \in {sess[p], None}
    BY <1>1, <1>2 DEF Pointers, Erase
  <2> QED
    BY <1>1, <2>1, <2>2, <2>3 DEF Pointers
<1>4. Tables'
  BY <1>1, <1>2 DEF Tables
<1>5. mixed' \subseteq Peer
  <2>1. cmd \in [Handler -> Commands] /\ mixed \subseteq Peer
    BY DEF Inv, Handlers
  <2> QED
    BY <1>1, <2>1, MixedPeers DEF Expire
<1> QED
  BY <1>1, <1>3, <1>4, <1>5 DEF Inv, Handlers

LEMMA NextKeeps ==
    ASSUME Inv, [Next]_vars PROVE Inv'
<1>1. CASE UNCHANGED vars
  BY <1>1 DEF vars, keys, Inv, Pointers, Tables, Handlers
<1>2. ASSUME NEW h \in Handler, Step(h) PROVE Inv'
  BY <1>2, ReadPointerKeeps, ReadRowKeeps, DropPointerKeeps, DeleteRequestKeeps,
     DeleteSessionKeeps, CheckBlockedKeeps, CheckFreeKeeps, SetFromKeeps, SetToKeeps,
     UndoFromKeeps, SaveRequestKeeps, SaveSessionKeeps, SetPointerKeeps, TouchKeeps,
     AddBlockKeeps DEF Step
<1>3. ASSUME NEW p \in Peer, NEW q \in Peer, At(p, q) \/ Unblock(p, q) PROVE Inv'
  <2>1. p \in Handler
    BY DEF Handler
  <2> QED
    BY <1>3, <2>1, CommandsKeep, UnblockKeeps
<1>4. ASSUME NEW p \in Peer, NEW q \in Peer, NEW h \in {p, Web}, Block(h, p, q) PROVE Inv'
  <2>1. h \in Handler
    BY DEF Handler
  <2> QED
    BY <1>4, <2>1, CommandsKeep
<1>5. ASSUME NEW p \in Peer,
             \/ \E op \in {"accept", "reject"} : Answer(p, op)
             \/ \E op \in {"disconnect", "relay"} : InSession(p, op)
             \/ Cancel(p)
      PROVE  Inv'
  <2>1. p \in Handler
    BY DEF Handler
  <2> QED
    BY <1>5, <2>1, CommandsKeep
<1>6. ASSUME NEW r \in Id, Expire(r) PROVE Inv'
  BY <1>6, ExpireKeeps
<1> QED
  BY <1>1, <1>2, <1>3, <1>4, <1>5, <1>6 DEF Next

LEMMA InitHolds ==
    ASSUME Init PROVE Inv
<1>1. PICK p, q \in Peer, start \in {"nothing", "request", "session"} :
          LET set(is, S) == [x \in Peer |-> IF start = is /\ x \in S THEN 1 ELSE None]
          IN  /\ p # q
              /\ from = set("request", {p}) /\ to = set("request", {q})
              /\ sess = set("session", {p, q})
              /\ open = (IF start = "request" THEN {1} ELSE {})
              /\ live = (IF start = "session" THEN {1} ELSE {})
              /\ accepted = live
              /\ party = [r \in Id |-> IF r = 1 /\ start # "nothing" THEN <<p, q>> ELSE None]
  BY Zenon DEF Init
<1>2. /\ blocks = {} /\ barred = {} /\ mixed = {}
      /\ cmd = [h \in Handler |-> Nothing]
  BY DEF Init
<1>3. start # "nothing" => Known(1, party) /\ party[1] = <<p, q>>
  BY <1>1, Distinct DEF Known
<1>4. Pointers
  BY <1>1, <1>3, Distinct DEF Pointers, Known, Party
<1>5. Tables
  BY <1>1, <1>2, <1>3, Distinct DEF Tables, Known
<1>6. Handlers
  BY <1>2, NothingSound DEF Handlers, Sound
<1> QED
  BY <1>2, <1>4, <1>5, <1>6 DEF Inv

-----------------------------------------------------------------------------
(* What it gives *)

\* The keys and the tables hold what they are for: what is pending was asked
\* for, what is in session was accepted, a block that is complete is in the list.
THEOREM Types == Spec => []TypeOK
<1>1. Inv => TypeOK
  <2> SUFFICES ASSUME Inv PROVE TypeOK
    OBVIOUS
  <2>1. open \subseteq Used /\ accepted \subseteq Used
    BY DEF Inv, Tables, Known, Used
  <2>2. \A h \in Handler : Busy(h) => cmd[h].me \in Peer
    BY DEF Inv, Handlers, Sound, Placed, Busy
  <2> QED
    BY <2>1, <2>2 DEF Inv, Pointers, Tables, TypeOK
<1> QED
  BY <1>1, InitHolds, NextKeeps, PTL DEF Spec

\* However many peers, requests and commands at the same time: a message is
\* passed on only between the parties of a request that was accepted.
THEOREM RelayNeedsConsent == Spec => []Consent
<1>1. Inv => Consent
  <2> SUFFICES ASSUME Inv, NEW h \in Handler, cmd[h].op = "relay", cmd[h].at \in {"touch", "kill"}
               PROVE  cmd[h].id \in accepted /\ cmd[h].me \in Ends(cmd[h].id)
    BY DEF Consent
  <2>1. cmd[h].at = "touch"
    BY DEF Inv, Handlers, Sound, Placed
  <2> QED
    BY <2>1 DEF Inv, Handlers, Sound, Founded, Party, Ends
<1> QED
  BY <1>1, InitHolds, NextKeeps, PTL DEF Spec

\* However a request is made while others block and lift blocks: none is
\* written between peers one of whom had completely blocked the other before.
THEOREM BlocksHold == Spec => []BlockBarsRequests
<1>1. Inv => BlockBarsRequests
  BY DEF Inv, Handlers, Sound, Warned, Creation, BlockBarsRequests
<1> QED
  BY <1>1, InitHolds, NextKeeps, PTL DEF Spec
=============================================================================
