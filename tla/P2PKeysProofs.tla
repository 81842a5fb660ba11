--------------------------- MODULE P2PKeysProofs ---------------------------
(***************************************************************************)
(* That the keys of two peers agree, whatever was done before, once no     *)
(* command that concerns them overlapped another: KeysAgree of P2P for any *)
(* peers, requests, commands and keys that expire.                         *)
(*                                                                         *)
(* KeysInv says it of every moment.  A command that nobody disturbs, that  *)
(* is, one not all of whose peers are mixed, is where it says it is: what  *)
(* it has read still stands (Posed).  Requests of peers none of which is   *)
(* mixed, called clean here, agree in their keys unless a command is in    *)
(* the middle of writing them, or they expire and no command concerns the  *)
(* two (Waning); no two that exist share a peer (Agreement, Alone).  The   *)
(* peers of commands that overlap are mixed (Scopes), and so are those of  *)
(* the sessions an acceptance has found (Olds), which is why an acceptance *)
(* that nobody disturbs finds none.                                        *)
(***************************************************************************)
EXTENDS P2PProofs

-----------------------------------------------------------------------------
(* The invariant *)

\* A command is between two of the writes that make r a request, or a session.
MiddleAs(c, r) ==
    \/ c.op = "at" /\ c.at \in {"to", "undo", "request"} /\ c.id = r
    \/ c.op = "accepting" /\ c.at \in {"first", "second"} /\ c.req = r
Middle(h, r) == MiddleAs(cmd[h], r)

\* r is a request of peers that are not mixed; what exists; nothing else shares its
\* peers; none of them is in a session; it has no key of a request.
Clean(r) == r \in Used /\ Ends(r) \cap mixed = {}
On == open \cup live
Alone(r) == \A s \in On : s # r /\ Clean(s) => Ends(s) \cap Ends(r) = {}
Unmet(r) == r \notin live /\ sess[party[r][1]] \notin live /\ sess[party[r][2]] \notin live
Gone(r) == r \notin open /\ from[party[r][1]] # r /\ to[party[r][2]] # r

\* The keys of r agree.
Agreed(r) ==
    /\ from[party[r][1]] = r <=> r \in open
    /\ to[party[r][2]] = r <=> r \in open
    /\ r \in open => Unmet(r)
    /\ r \in live => sess[party[r][1]] = r /\ sess[party[r][2]] = r

\* The keys of r expire one by one: its row is left, nobody is in a session, and no
\* command concerns the two.
Waning(r) ==
    /\ r \in Fading /\ r \in open /\ from[party[r][1]] # r /\ Unmet(r)
    /\ \A h \in Handler : Scope(cmd[h]) \cap Ends(r) = {}

Agreement ==
    \A r \in Id : Clean(r) =>
        /\ (\A h \in Handler : ~Middle(h, r)) => Agreed(r) \/ Waning(r)
        /\ r \in On => Alone(r)

\* Not all of the peers the command of h concerns are mixed.
Untainted(h) == ~(Scope(cmd[h]) \subseteq mixed)

\* What a command that nobody disturbs knows where it is.
PosedAs(c) ==
    /\ c.old = {}
    /\ c.at \in {"row", "drop"} =>
          /\ Pointer(c.key, c.of) \in {c.id, None}
          /\ c.op = "accepting" /\ c.key = "sess" => c.id \notin live
    /\ c.at = "drop" => c.id \notin Rows(c.key)
    /\ \/ c.at = "delete"
       \/ c.at = "blocked" /\ c.op # "at"
       \/ c.at = "kill" /\ c.op # "accepting"
       => Alone(c.id)
    /\ c.at = "touch" => Alone(c.id) /\ (Clean(c.id) => c.id \notin open)
    /\ c.op = "accepting" /\ c.at = "delete" => Unmet(c.id)
    /\ c.op = "accepting" /\ ((c.key = "sess" /\ c.at \in {"pointer", "row", "drop", "kill"}) \/ c.at = "save")
          => Alone(c.req) /\ Unmet(c.req) /\ Gone(c.req)
    /\ c.op = "accepting" /\ c.key = "sess" /\ c.at \in {"pointer", "row", "drop"} => c.of \in Ends(c.req)
    /\ c.op = "accepting" /\ c.at \in {"first", "second"} =>
          /\ Alone(c.req) /\ Gone(c.req)
          /\ c.at = "second" /\ c.req \in live => sess[party[c.req][1]] = c.req
    /\ c.op = "at" /\ c.at \in {"from", "to", "undo", "request"} =>
          /\ Alone(c.id) /\ Unmet(c.id) /\ c.id \notin open
          /\ c.at = "from" => Gone(c.id)
          /\ c.at \in {"to", "undo"} => (Clean(c.id) => from[c.me] = c.id) /\ to[c.with] # c.id
          /\ c.at = "request" => (Clean(c.id) => from[c.me] = c.id /\ to[c.with] = c.id)

Posed(h) == PosedAs(cmd[h])

\* What a command holds are requests, the one it makes is its own; pointers lead to
\* requests of that peer.
GroundedAs(c) ==
    /\ {c.id, c.req} \subseteq Used \cup {None} /\ c.old \subseteq Used
    /\ c.op = "at" /\ c.at \in {"from", "to", "undo", "request"}
          => c.id \in Used /\ party[c.id] = <<c.me, c.with>>
Grounded == \A h \in Handler : GroundedAs(cmd[h])
Rooted ==
    \A p \in Peer : /\ from[p] # None => party[from[p]][1] = p
                    /\ to[p] # None => party[to[p]][2] = p

\* Commands that concern a peer of another are mixed with it, and sessions that were
\* found are of mixed peers.
Scopes ==
    \A g, h \in Handler : g # h /\ Scope(cmd[g]) \cap Scope(cmd[h]) # {}
        => Scope(cmd[g]) \cup Scope(cmd[h]) \subseteq mixed
Olds ==
    \A g \in Handler : \A s \in cmd[g].old :
        /\ Ends(s) \subseteq mixed
        /\ \A h \in Handler \ {g} : Untainted(h) => Ends(s) \cap Scope(cmd[h]) = {}

KeysInv ==
    /\ Grounded /\ Rooted /\ Scopes /\ Olds /\ Agreement
    /\ \A h \in Handler : Untainted(h) => Posed(h)

-----------------------------------------------------------------------------
(* Facts about its parts *)

\* The parties of a request are peers.
LEMMA EndsAre ==
    ASSUME Tables
    PROVE  /\ \A r : Known(r, party) <=> r \in Used
           /\ \A r \in Used : /\ party[r][1] \in Peer /\ party[r][2] \in Peer
                              /\ party[r][1] \in Ends(r) /\ party[r][2] \in Ends(r)
           /\ \A p, r : p \in Ends(r) <=> p = party[r][1] \/ p = party[r][2]
           /\ \A p, r : Party(p, r, party) <=> p \in Ends(r)
           /\ On \subseteq Used /\ None \notin On /\ None \notin Used
<1>1. \A r : Known(r, party) <=> r \in Used
  BY DEF Known, Used
<1>2. \A r \in Used : party[r][1] \in Peer /\ party[r][2] \in Peer
  BY DEF Tables, Used
<1>3. On \subseteq Used
  BY <1>1 DEF Tables, On
<1>4. None \notin Used
  BY Distinct DEF Used
<1> QED
  BY <1>1, <1>2, <1>3, <1>4 DEF Ends, Party

\* A command concerns whom it is about and the parties of what it has found.
LEMMA ScopeIs ==
    ASSUME NEW c
    PROVE  /\ c.op = "none" => Scope(c) = {}
           /\ c.op # "none" =>
                 /\ \A p \in {c.me, c.with, c.of} : p # None => p \in Scope(c)
                 /\ \A r \in {c.id, c.req} : r \in Used => Ends(r) \subseteq Scope(c)
BY DEF Scope

\* What the parties of a request settle is the same as long as they are.
LEMMA ScopeSame ==
    ASSUME party' = party
    PROVE  /\ \A r : Ends(r)' = Ends(r)
           /\ Used' = Used
           /\ \A g \in Handler : Scope(cmd[g])' = Scope(cmd'[g])
BY DEF Scope, Ends, Used

\* Commands that overlap are mixed, wholly.
LEMMA MixedIs ==
    ASSUME NEW c, NEW R
    PROVE  /\ mixed \subseteq Mixed(c, R)
           /\ \A g, h \in Handler : g # h /\ Scope(c[g]) \cap Scope(c[h]) # {}
                 => Scope(c[g]) \cup Scope(c[h]) \subseteq Mixed(c, R)
           /\ \A h \in Handler : Scope(c[h]) \cap Mixed(c, R) # {} => Scope(c[h]) \subseteq Mixed(c, R)
           /\ \A h \in Handler : \A r \in R :
                 Scope(c[h]) \cap Ends(r) # {} => Scope(c[h]) \subseteq Mixed(c, R)
<1> DEFINE S(h) == Scope(c[h])
           Clash(h) == \/ S(h) \cap mixed # {}
                       \/ \E g \in Handler \ {h} : S(g) \cap S(h) # {}
                       \/ \E r \in R : Ends(r) \cap S(h) # {}
<1>1. Mixed(c, R) = mixed \cup UNION {S(h) : h \in {h \in Handler : Clash(h)}}
  <2>1. PICK f : f = [h \in Handler |-> Scope(c[h])]
    OBVIOUS
  <2>2. \A h \in Handler : f[h] = S(h)
    BY <2>1
  <2>3. Mixed(c, R) = mixed \cup UNION {f[h] : h \in {h \in Handler :
             \/ f[h] \cap mixed # {}
             \/ \E g \in Handler \ {h} : f[g] \cap f[h] # {}
             \/ \E r \in R : Ends(r) \cap f[h] # {}}}
    BY <2>1 DEF Mixed
  <2> HIDE DEF S
  <2>4. {h \in Handler : \/ f[h] \cap mixed # {}
                         \/ \E g \in Handler \ {h} : f[g] \cap f[h] # {}
                         \/ \E r \in R : Ends(r) \cap f[h] # {}} = {h \in Handler : Clash(h)}
    BY <2>2
  <2> HIDE DEF Clash
  <2> QED
    BY <2>2, <2>3, <2>4
<1> HIDE DEF S
<1>2. \A h \in Handler : Clash(h) => S(h) \subseteq Mixed(c, R)
  BY <1>1
<1>3. ASSUME NEW g \in Handler, NEW h \in Handler, g # h, S(g) \cap S(h) # {}
      PROVE  S(g) \cup S(h) \subseteq Mixed(c, R)
  <2>1. Clash(g) /\ Clash(h)
    BY <1>3
  <2> QED
    BY <1>2, <2>1
<1>4. ASSUME NEW h \in Handler, S(h) \cap Mixed(c, R) # {} PROVE S(h) \subseteq Mixed(c, R)
  <2>1. PICK x \in S(h) : x \in Mixed(c, R)
    BY <1>4
  <2>2. CASE x \in mixed
    BY <1>2, <2>1, <2>2
  <2>3. CASE x \notin mixed
    <3>1. PICK g \in Handler : x \in S(g) /\ Clash(g)
      BY <1>1, <2>1, <2>3
    <3> QED
      BY <1>2, <1>3, <2>1, <3>1
  <2> QED
    BY <2>2, <2>3
<1>5. mixed \subseteq Mixed(c, R)
  BY <1>1
<1>6. ASSUME NEW h \in Handler, NEW r \in R, S(h) \cap Ends(r) # {} PROVE S(h) \subseteq Mixed(c, R)
  <2>1. Clash(h)
    BY <1>6
  <2> QED
    BY <1>2, <2>1
<1> QED
  BY <1>3, <1>4, <1>5, <1>6 DEF S

\* What a step changes is of the peers F.
Within(F) ==
    /\ \A p \in Peer : p \notin F => from'[p] = from[p] /\ to'[p] = to[p] /\ sess'[p] = sess[p]
    /\ \A r \in Used : ~(Ends(r) \subseteq F) => (r \in open' <=> r \in open) /\ (r \in live' <=> r \in live)
Grows ==
    /\ \A r \in Used : party'[r] = party[r]
    /\ Used \subseteq Used' /\ On' \subseteq Used /\ mixed \subseteq mixed'

\* What is known of a request none of whose parties a step concerns stays.
LEMMA Stable ==
    ASSUME Inv, NEW F, Within(F), Grows, NEW r \in Used, Ends(r) \cap F = {}
    PROVE  /\ party'[r] = party[r] /\ Ends(r)' = Ends(r)
           /\ r \in open' <=> r \in open
           /\ r \in live' <=> r \in live
           /\ \A p \in Ends(r) : from'[p] = from[p] /\ to'[p] = to[p] /\ sess'[p] = sess[p]
           /\ Clean(r)' => Clean(r)
           /\ Alone(r) => Alone(r)'
           /\ Unmet(r) => Unmet(r)'
           /\ Gone(r) => Gone(r)'
           /\ Agreed(r) => Agreed(r)'
<1>0. Tables /\ Pointers
  BY DEF Inv
<1>1. /\ party[r][1] \in Peer /\ party[r][2] \in Peer /\ Ends(r) \subseteq Peer
      /\ party[r][1] \in Ends(r) /\ party[r][2] \in Ends(r)
  BY <1>0, EndsAre DEF Ends
<1>2. /\ party'[r] = party[r] /\ \A s \in Used : Ends(s)' = Ends(s)
  BY DEF Grows, Ends
<1>3. ~(Ends(r) \subseteq F)
  BY <1>1
<1>4. (r \in open' <=> r \in open) /\ (r \in live' <=> r \in live)
  BY <1>3 DEF Within
<1>5. \A p \in Ends(r) : from'[p] = from[p] /\ to'[p] = to[p] /\ sess'[p] = sess[p]
  BY <1>1 DEF Within
<1>6. Clean(r)' => Clean(r)
  BY <1>2 DEF Clean, Grows
<1>7. ASSUME Alone(r) PROVE Alone(r)'
  <2> SUFFICES ASSUME NEW s \in On', s # r, Clean(s)', Ends(s)' \cap Ends(r)' # {} PROVE FALSE
    BY DEF Alone
  <2>1. s \in Used /\ Ends(s)' = Ends(s) /\ Ends(r)' = Ends(r)
    BY <1>2 DEF Grows
  <2>2. ~(Ends(s) \subseteq F)
    BY <2>1
  <2>3. s \in On
    BY <2>1, <2>2 DEF Within, On
  <2>4. Clean(s)
    BY <2>1 DEF Clean, Grows
  <2> QED
    BY <1>7, <2>1, <2>3, <2>4 DEF Alone
<1>8. ASSUME NEW p \in Ends(r), sess[p] \notin live PROVE sess'[p] \notin live'
  <2>1. sess'[p] = sess[p] /\ p \in Peer
    BY <1>1, <1>5
  <2>2. CASE sess[p] = None
    <3>1. live' \subseteq Used
      BY DEF Grows, On
    <3> QED
      BY <1>0, <2>1, <2>2, <3>1, EndsAre
  <2>3. CASE sess[p] # None
    <3>1. sess[p] \in Used /\ p \in Ends(sess[p])
      BY <1>0, <2>1, <2>3, EndsAre DEF Pointers
    <3>2. ~(Ends(sess[p]) \subseteq F)
      BY <3>1
    <3> QED
      BY <1>8, <2>1, <3>1, <3>2 DEF Within
  <2> QED
    BY <2>2, <2>3
<1>9. Unmet(r) => Unmet(r)'
  BY <1>1, <1>2, <1>4, <1>8 DEF Unmet
<1>10. Gone(r) => Gone(r)'
  BY <1>1, <1>2, <1>4, <1>5 DEF Gone
<1>11. Agreed(r) => Agreed(r)'
  BY <1>1, <1>2, <1>4, <1>5, <1>9 DEF Agreed
<1> QED
  BY <1>2, <1>4, <1>5, <1>6, <1>7, <1>9, <1>10, <1>11

\* Two commands that are one but for the blocks they bear in mind.
Alike(c, d) ==
    /\ d.op = c.op /\ d.at = c.at /\ d.me = c.me /\ d.with = c.with /\ d.key = c.key /\ d.of = c.of
    /\ d.id = c.id /\ d.req = c.req /\ d.old = c.old

\* Where a command is stays right when a step concerns none of its peers.
LEMMA PosedStays ==
    ASSUME Inv, NEW F, Within(F), Grows, NEW g \in Handler, Posed(g), GroundedAs(cmd[g]),
           cmd[g].op # "none", Scope(cmd[g]) \cap F = {}, Alike(cmd[g], cmd'[g])
    PROVE  Posed(g)'
<1>1. PICK c : c = cmd[g]
  OBVIOUS
<1>2. PICK d : d = cmd'[g]
  OBVIOUS
<1>3. /\ Tables /\ Pointers /\ Sound(c, party, accepted, blocks) /\ PosedAs(c) /\ GroundedAs(c)
      /\ Alike(c, d)
  BY <1>1, <1>2, HandlerSound DEF Posed
<1>4. \A r \in {c.id, c.req} : r \in Used =>
         /\ party'[r] = party[r]
         /\ r \in open' <=> r \in open
         /\ r \in live' <=> r \in live
         /\ \A p \in Ends(r) : from'[p] = from[p] /\ to'[p] = to[p] /\ sess'[p] = sess[p]
         /\ Clean(r)' => Clean(r)
         /\ Alone(r) => Alone(r)'
         /\ Unmet(r) => Unmet(r)'
         /\ Gone(r) => Gone(r)'
  <2> SUFFICES ASSUME NEW r \in {c.id, c.req}, r \in Used PROVE Ends(r) \cap F = {}
    BY Stable
  <2>1. Ends(r) \subseteq Scope(c)
    BY <1>1, ScopeIs
  <2> QED
    BY <1>1, <2>1
<1>5. None \notin open /\ None \notin live /\ None \notin open' /\ None \notin live' /\ None \notin Used
  BY <1>3, EndsAre DEF On, Grows
<1>6. \A p \in Peer : p \in {c.me, c.with, c.of} => from'[p] = from[p] /\ to'[p] = to[p] /\ sess'[p] = sess[p]
  <2> SUFFICES ASSUME NEW p \in Peer, p \in {c.me, c.with, c.of} PROVE p \notin F
    BY DEF Within
  <2>1. p \in Scope(c)
    BY <1>1, Distinct, ScopeIs
  <2> QED
    BY <1>1, <2>1
<1>7. {c.id, c.req} \subseteq Used \cup {None}
  BY <1>3 DEF GroundedAs
<1>8. /\ (c.id \in open' <=> c.id \in open) /\ (c.id \in live' <=> c.id \in live)
      /\ (c.req \in open' <=> c.req \in open) /\ (c.req \in live' <=> c.req \in live)
  BY <1>4, <1>5, <1>7
<1>9. d.old = {}
  BY <1>3 DEF PosedAs, Alike
<1>10. d.at \in {"row", "drop"} =>
          /\ Pointer(d.key, d.of)' \in {d.id, None}
          /\ d.op = "accepting" /\ d.key = "sess" => d.id \notin live'
  <2> SUFFICES ASSUME d.at \in {"row", "drop"}
               PROVE  /\ Pointer(d.key, d.of)' \in {d.id, None}
                      /\ d.op = "accepting" /\ d.key = "sess" => d.id \notin live'
    OBVIOUS
  <2>1. c.of \in Peer /\ c.key \in {"sess", "out", "in"} /\ d.of = c.of /\ d.key = c.key /\ d.id = c.id
    BY <1>3 DEF Sound, Placed, Lookups, Commands, Alike
  <2>2. Pointer(d.key, d.of)' = Pointer(c.key, c.of)
    BY <1>6, <2>1 DEF Pointer
  <2> QED
    BY <1>3, <1>8, <2>1, <2>2 DEF PosedAs, Alike
<1>11. d.at = "drop" => d.id \notin Rows(d.key)'
  BY <1>3, <1>8 DEF PosedAs, Alike, Rows
<1>12. \/ d.at = "delete"
       \/ d.at = "blocked" /\ d.op # "at"
       \/ d.at = "kill" /\ d.op # "accepting"
       => Alone(d.id)'
  <2> SUFFICES ASSUME \/ d.at = "delete"
                      \/ d.at = "blocked" /\ d.op # "at"
                      \/ d.at = "kill" /\ d.op # "accepting"
               PROVE  Alone(d.id)'
    OBVIOUS
  <2>1. Known(c.id, party) /\ Alone(c.id) /\ d.id = c.id
    BY <1>3 DEF Sound, Founded, PosedAs, Alike
  <2> QED
    BY <1>3, <1>4, <2>1, EndsAre
<1>13. d.at = "touch" => Alone(d.id)' /\ (Clean(d.id)' => d.id \notin open')
  <2> SUFFICES ASSUME d.at = "touch" PROVE Alone(d.id)' /\ (Clean(d.id)' => d.id \notin open')
    OBVIOUS
  <2>1. c.id \in accepted /\ Alone(c.id) /\ d.id = c.id /\ (Clean(c.id) => c.id \notin open)
    BY <1>3 DEF Sound, Founded, PosedAs, Alike
  <2>2. c.id \in Used
    BY <1>3, <2>1, EndsAre, HandlerSound
  <2> QED
    BY <1>4, <2>1, <2>2
<1>14. d.op = "accepting" /\ d.at = "delete" => Unmet(d.id)'
  <2> SUFFICES ASSUME d.op = "accepting", d.at = "delete" PROVE Unmet(d.id)'
    OBVIOUS
  <2>1. Known(c.id, party) /\ Unmet(c.id) /\ d.id = c.id
    BY <1>3 DEF Sound, Founded, PosedAs, Alike
  <2> QED
    BY <1>3, <1>4, <2>1, EndsAre
<1>15. d.op = "accepting" /\ ((d.key = "sess" /\ d.at \in {"pointer", "row", "drop", "kill"}) \/ d.at = "save")
          => Alone(d.req)' /\ Unmet(d.req)' /\ Gone(d.req)'
  <2> SUFFICES ASSUME d.op = "accepting", (d.key = "sess" /\ d.at \in {"pointer", "row", "drop", "kill"}) \/ d.at = "save"
               PROVE  Alone(d.req)' /\ Unmet(d.req)' /\ Gone(d.req)'
    OBVIOUS
  <2>1. c.req \in accepted /\ Alone(c.req) /\ Unmet(c.req) /\ Gone(c.req) /\ d.req = c.req
    BY <1>3 DEF Sound, Founded, PosedAs, Alike, Lookups
  <2>2. c.req \in Used
    BY <1>3, <2>1, EndsAre, HandlerSound
  <2> QED
    BY <1>4, <2>1, <2>2
<1>16. d.op = "accepting" /\ d.at \in {"first", "second"} =>
          /\ Alone(d.req)' /\ Gone(d.req)'
          /\ d.at = "second" /\ d.req \in live' => sess'[party'[d.req][1]] = d.req
  <2> SUFFICES ASSUME d.op = "accepting", d.at \in {"first", "second"}
               PROVE  /\ Alone(d.req)' /\ Gone(d.req)'
                      /\ d.at = "second" /\ d.req \in live' => sess'[party'[d.req][1]] = d.req
    OBVIOUS
  <2>1. /\ c.req \in accepted /\ Alone(c.req) /\ Gone(c.req) /\ d.req = c.req /\ d.at = c.at
        /\ c.at = "second" /\ c.req \in live => sess[party[c.req][1]] = c.req
    BY <1>3 DEF Sound, Founded, PosedAs, Alike
  <2>2. c.req \in Used /\ party[c.req][1] \in Ends(c.req)
    BY <1>3, <2>1, EndsAre, HandlerSound
  <2> QED
    BY <1>4, <2>1, <2>2
<1>17. d.op = "at" /\ d.at \in {"from", "to", "undo", "request"} =>
          /\ Alone(d.id)' /\ Unmet(d.id)' /\ d.id \notin open'
          /\ d.at = "from" => Gone(d.id)'
          /\ d.at \in {"to", "undo"} => (Clean(d.id)' => from'[d.me] = d.id) /\ to'[d.with] # d.id
          /\ d.at = "request" => (Clean(d.id)' => from'[d.me] = d.id /\ to'[d.with] = d.id)
  <2> SUFFICES ASSUME d.op = "at", d.at \in {"from", "to", "undo", "request"}
               PROVE
          /\ Alone(d.id)' /\ Unmet(d.id)' /\ d.id \notin open'
          /\ d.at = "from" => Gone(d.id)'
          /\ d.at \in {"to", "undo"} => (Clean(d.id)' => from'[d.me] = d.id) /\ to'[d.with] # d.id
          /\ d.at = "request" => (Clean(d.id)' => from'[d.me] = d.id /\ to'[d.with] = d.id)
    OBVIOUS
  <2>1. /\ d.id = c.id /\ d.me = c.me /\ d.with = c.with /\ d.at = c.at
        /\ Alone(c.id) /\ Unmet(c.id) /\ c.id \notin open
        /\ c.at = "from" => Gone(c.id)
        /\ c.at \in {"to", "undo"} => (Clean(c.id) => from[c.me] = c.id) /\ to[c.with] # c.id
        /\ c.at = "request" => (Clean(c.id) => from[c.me] = c.id /\ to[c.with] = c.id)
    BY <1>3 DEF PosedAs, Alike
  <2>2. c.id \in Used /\ c.me \in Peer /\ c.with \in Peer
    BY <1>3 DEF Sound, Placed, Alike, GroundedAs
  <2>3. from'[c.me] = from[c.me] /\ to'[c.with] = to[c.with]
    BY <1>6, <2>2
  <2> QED
    BY <1>4, <2>1, <2>2, <2>3
<1>19. d.op = "accepting" /\ d.key = "sess" /\ d.at \in {"pointer", "row", "drop"} => d.of \in Ends(d.req)'
  <2> SUFFICES ASSUME d.op = "accepting", d.key = "sess", d.at \in {"pointer", "row", "drop"}
               PROVE  d.of \in Ends(d.req)'
    OBVIOUS
  <2>1. c.req \in accepted /\ c.of \in Ends(c.req) /\ d.req = c.req /\ d.of = c.of
    BY <1>3 DEF Sound, Founded, PosedAs, Alike, Lookups
  <2>2. c.req \in Used
    BY <1>3, <2>1, EndsAre, HandlerSound
  <2> QED
    BY <1>4, <2>1, <2>2 DEF Ends
<1>18. PosedAs(d)'
  BY <1>9, <1>10, <1>11, <1>12, <1>13, <1>14, <1>15, <1>16, <1>17, <1>19 DEF PosedAs
<1> QED
  BY <1>2, <1>18 DEF Posed

\* The peers whose keys a step of h may change.
Footprint(h) == Scope(cmd[h]) \cup UNION {Ends(s) : s \in cmd[h].old}

\* What becomes of a request of clean peers that a step concerns.
Right(r) == /\ (\A g \in Handler : ~Middle(g, r)) => Agreed(r) \/ Waning(r)
            /\ r \in On => Alone(r)

\* Who writes a request concerns its peers.
LEMMA MiddleConcerns ==
    ASSUME NEW g \in Handler, NEW r, Middle(g, r), GroundedAs(cmd[g]), Tables, r \in Used
    PROVE  Ends(r) \subseteq Scope(cmd[g]) /\ Ends(r) # {}
<1>1. r \in {cmd[g].id, cmd[g].req} /\ cmd[g].op # "none"
  BY DEF Middle, MiddleAs
<1> QED
  BY <1>1, ScopeIs, EndsAre

\* A step of h, and of no other command, within F.
Moves(h, F) ==
    /\ F \subseteq Footprint(h) /\ Within(F) /\ Grows
    /\ \A g \in Handler : g # h => Alike(cmd[g], cmd'[g])
    /\ mixed' = Mixed(cmd', Fading)
    /\ \A g \in Handler : Scope(cmd[g])' = Scope(cmd'[g])

\* What the mixing of a step leaves.
LEMMA MovesMix ==
    ASSUME NEW h, NEW F, Moves(h, F)
    PROVE  /\ Scopes' /\ mixed \subseteq mixed'
           /\ \A g \in Handler : Untainted(g)' => Scope(cmd[g])' \cap mixed' = {}
           /\ \A g \in Handler : \A r \in Fading :
                 Ends(r) \cap mixed' = {} => Scope(cmd[g])' \cap Ends(r) = {}
<1>1. \A g \in Handler : Scope(cmd[g])' = Scope(cmd'[g])
  BY DEF Moves
<1>2. /\ mixed \subseteq mixed'
      /\ \A f, g \in Handler : f # g /\ Scope(cmd'[f]) \cap Scope(cmd'[g]) # {}
                 => Scope(cmd'[f]) \cup Scope(cmd'[g]) \subseteq mixed'
      /\ \A g \in Handler : Scope(cmd'[g]) \cap mixed' # {} => Scope(cmd'[g]) \subseteq mixed'
      /\ \A g \in Handler : \A r \in Fading : Scope(cmd'[g]) \cap Ends(r) # {} => Scope(cmd'[g]) \subseteq mixed'
  BY MixedIs DEF Moves
<1>3. Scopes'
  BY <1>1, <1>2 DEF Scopes
<1>4. \A g \in Handler : Untainted(g)' => Scope(cmd[g])' \cap mixed' = {}
  BY <1>1, <1>2 DEF Untainted
<1>5. ASSUME NEW g \in Handler, NEW r \in Fading, Ends(r) \cap mixed' = {}
      PROVE  Scope(cmd[g])' \cap Ends(r) = {}
  BY <1>1, <1>2, <1>5
<1> QED
  BY <1>2, <1>3, <1>4, <1>5

\* Those whose command is as it was are where they were, and know what they knew.
LEMMA OthersStay ==
    ASSUME Inv, KeysInv, NEW h \in Handler, NEW F, Moves(h, F), NEW g \in Handler, g # h
    PROVE  /\ GroundedAs(cmd[g])' /\ (Untainted(g)' => Posed(g)')
           /\ Untainted(g)' => Untainted(g) /\ Scope(cmd[g])' = Scope(cmd[g])
           /\ \A r : Middle(g, r)' <=> Middle(g, r)
<1>1. PICK c : c = cmd[g]
  OBVIOUS
<1>2. PICK d : d = cmd'[g]
  OBVIOUS
<1>3. Alike(c, d) /\ Grows /\ GroundedAs(c) /\ Scope(cmd[g])' = Scope(d) /\ Tables
  BY <1>1, <1>2 DEF Moves, KeysInv, Grounded, Inv
<1>4. GroundedAs(d)'
  BY <1>3 DEF GroundedAs, Alike, Grows
<1>5. Scope(d) = Scope(c)
  BY <1>3 DEF Scope, Alike
<1>6. Untainted(g)' => Untainted(g) /\ c.op # "none"
  <2>1. mixed \subseteq mixed'
    BY MovesMix
  <2>2. c.op = "none" => Scope(c) = {}
    BY ScopeIs
  <2> QED
    BY <1>1, <1>3, <1>5, <2>1, <2>2 DEF Untainted
<1>7. ASSUME Untainted(g)' PROVE Posed(g)'
  <2>1. Untainted(g) /\ Posed(g) /\ c.op # "none"
    BY <1>6, <1>7 DEF KeysInv
  <2>2. Scope(c) \cap Footprint(h) = {}
    <3>1. Scope(c) \cap Scope(cmd[h]) = {}
      BY <1>1, <2>1 DEF KeysInv, Scopes, Untainted
    <3>2. \A s \in cmd[h].old : Ends(s) \cap Scope(c) = {}
      BY <1>1, <2>1 DEF KeysInv, Olds
    <3> QED
      BY <3>1, <3>2 DEF Footprint
  <2>3. Scope(c) \cap F = {} /\ Within(F)
    BY <2>2 DEF Moves
  <2> QED
    BY <1>1, <1>2, <1>3, <2>1, <2>3, PosedStays
<1>8. \A r : Middle(g, r)' <=> Middle(g, r)
  BY <1>1, <1>2, <1>3 DEF Middle, MiddleAs, Alike
<1> QED
  BY <1>1, <1>2, <1>3, <1>4, <1>5, <1>6, <1>7, <1>8

\* A step of h keeps the invariant when it leaves h where it says, and the keys
\* of the peers it concerns agreeing.
LEMMA MovesKeep ==
    ASSUME Inv, KeysInv, NEW h \in Handler, NEW F, Moves(h, F), Rooted', GroundedAs(cmd[h])',
           \A s \in cmd'[h].old : s \in cmd[h].old \/ Ends(s)' \subseteq mixed',
           Untainted(h)' => Posed(h)',
           \A r \in Used' : Clean(r)' /\ (r \notin Used \/ Ends(r) \cap F # {} \/ Middle(h, r)) => Right(r)'
    PROVE  KeysInv'
<1>1. Tables /\ Grows /\ Within(F) /\ F \subseteq Footprint(h) /\ mixed \subseteq mixed'
  BY DEF Inv, Moves, Grows
<1>2. Grounded'
  BY OthersStay DEF Grounded
<1>3. Scopes' /\ \A g \in Handler : Untainted(g)' => Scope(cmd[g])' \cap mixed' = {}
  BY MovesMix
<1>4. Olds'
  <2> SUFFICES ASSUME NEW g \in Handler, NEW s \in cmd'[g].old PROVE Ends(s)' \subseteq mixed'
    BY <1>3 DEF Olds
  <2>1. CASE s \in cmd[g].old
    <3>1. Ends(s) \subseteq mixed /\ s \in Used
      BY <2>1 DEF KeysInv, Olds, Grounded, GroundedAs
    <3>2. Ends(s)' = Ends(s)
      BY <1>1, <3>1 DEF Grows, Ends
    <3> QED
      BY <1>1, <3>1, <3>2
  <2>2. CASE s \notin cmd[g].old
    <3>1. g = h
      BY <2>2 DEF Moves, Alike
    <3> QED
      BY <2>2, <3>1
  <2> QED
    BY <2>1, <2>2
<1>5. \A g \in Handler : Untainted(g)' => Posed(g)'
  BY OthersStay
<1>6. ASSUME NEW r \in Id, Clean(r)' PROVE Right(r)'
  <2>1. CASE r \notin Used \/ Ends(r) \cap F # {} \/ Middle(h, r)
    BY <1>6, <2>1 DEF Clean
  <2>2. CASE r \in Used /\ Ends(r) \cap F = {} /\ ~Middle(h, r)
    <3>1. /\ r \in open' <=> r \in open
          /\ r \in live' <=> r \in live
          /\ Clean(r) /\ (Alone(r) => Alone(r)') /\ (Agreed(r) => Agreed(r)')
      BY <1>1, <1>6, <2>2, Stable
    <3>2. ASSUME \A g \in Handler : ~Middle(g, r)' PROVE Agreed(r)' \/ Waning(r)'
      <4>1. \A g \in Handler : ~Middle(g, r)
        BY <2>2, <3>2, OthersStay
      <4>2. Agreed(r) \/ Waning(r)
        BY <1>6, <3>1, <4>1 DEF KeysInv, Agreement
      <4>3. ASSUME Waning(r) PROVE Waning(r)'
        <5>1. /\ party'[r] = party[r] /\ Ends(r)' = Ends(r) /\ (Unmet(r) => Unmet(r)')
              /\ \A p \in Ends(r) : from'[p] = from[p] /\ to'[p] = to[p] /\ sess'[p] = sess[p]
          BY <1>1, <2>2, Stable
        <5>2. party[r][1] \in Ends(r) /\ party[r][2] \in Ends(r)
          BY <1>1, <2>2, EndsAre
        <5>3. r \in Fading /\ Ends(r) \cap mixed' = {} /\ r \in Used'
          BY <1>6, <4>3, <5>1 DEF Waning, Clean
        <5>4. \A g \in Handler : Scope(cmd[g])' \cap Ends(r) = {}
          BY <5>3, MovesMix
        <5>5. r \in Fading'
          BY <4>3, <3>1, <5>1, <5>2, <5>3 DEF Fading, Waning
        <5> QED
          BY <4>3, <3>1, <5>1, <5>2, <5>4, <5>5 DEF Waning
      <4> QED
        BY <3>1, <4>2, <4>3
    <3>3. r \in On' => Alone(r)
      BY <3>1 DEF KeysInv, Agreement, On
    <3> QED
      BY <3>1, <3>2, <3>3 DEF Right
  <2> QED
    BY <2>1, <2>2
<1>7. Agreement'
  BY <1>6 DEF Agreement, Right
<1> QED
  BY <1>2, <1>3, <1>4, <1>5, <1>7 DEF KeysInv

\* A step by which h goes on with d.
LEMMA GoMoves ==
    ASSUME Inv, KeysInv, NEW h \in Handler, NEW d, Go(h, d), NEW F, F \subseteq Footprint(h), Within(F),
           party' = party, On' \subseteq Used
    PROVE  /\ Moves(h, F) /\ cmd'[h] = IF d.at = "done" THEN Nothing ELSE d
           /\ \A r : Ends(r)' = Ends(r)
           /\ Used' = Used /\ mixed \subseteq mixed'
<1>1. cmd' = [cmd EXCEPT ![h] = IF d.at = "done" THEN Nothing ELSE d] /\ mixed' = Mixed(cmd', Fading)
  BY DEF Go, Become
<1>2. cmd \in [Handler -> Commands]
  BY DEF Inv, Handlers
<1>3. mixed \subseteq mixed'
  BY <1>1, MixedIs
<1>4. Grows
  BY <1>3, ScopeSame DEF Grows
<1>5. \A g \in Handler : g # h => Alike(cmd[g], cmd'[g])
  BY <1>1, <1>2 DEF Alike
<1> QED
  BY <1>1, <1>2, <1>3, <1>4, <1>5, ScopeSame DEF Moves

\* A command that goes on untainted was untainted.
LEMMA StaysUntainted ==
    ASSUME Inv, KeysInv, NEW h \in Handler, NEW F, Moves(h, F), Untainted(h)',
           cmd[h].op # "none", cmd[h].me \in Peer, cmd'[h].op = "none" \/ cmd'[h].me = cmd[h].me
    PROVE  /\ Untainted(h) /\ Posed(h) /\ cmd'[h].op # "none"
           /\ Scope(cmd'[h]) \cap mixed' = {}
<1>1. Scope(cmd[h])' = Scope(cmd'[h]) /\ Scope(cmd[h])' \cap mixed' = {} /\ mixed \subseteq mixed'
  BY MovesMix DEF Moves
<1>2. cmd'[h].op # "none" /\ cmd'[h].me = cmd[h].me
  BY <1>1, ScopeIs DEF Untainted
<1>3. cmd[h].me \in Scope(cmd[h]) /\ cmd'[h].me \in Scope(cmd'[h])
  BY <1>2, Distinct, ScopeIs
<1>4. Untainted(h)
  BY <1>1, <1>2, <1>3 DEF Untainted
<1> QED
  BY <1>1, <1>2, <1>4 DEF KeysInv

\* When a step adds no row but that of x, which is alone, whoever was alone is.
LEMMA AloneStays ==
    ASSUME Tables, party' = party, mixed \subseteq mixed', On' \subseteq Used,
           NEW x, On' \subseteq On \/ (On' \subseteq On \cup {x} /\ Alone(x))
    PROVE  /\ \A r : Clean(r)' /\ r \in On' /\ (r \in On => Alone(r)) => Alone(r)'
           /\ \A r : (On' \subseteq On \/ r = x) /\ Alone(r) => Alone(r)'
<1>1. /\ \A s : Ends(s)' = Ends(s)
      /\ \A s : Clean(s)' => Clean(s)
  BY ScopeSame DEF Clean
<1>2. \A r : (On' \subseteq On \/ r = x) /\ Alone(r) => Alone(r)'
  BY <1>1 DEF Alone
<1>3. ASSUME NEW r, Clean(r)', r \in On', r \in On => Alone(r) PROVE Alone(r)'
  <2>1. CASE On' \subseteq On
    BY <1>2, <1>3, <2>1
  <2>2. CASE r = x
    <3>1. (Alone(x) /\ On' \subseteq On \cup {x}) \/ On' \subseteq On
      OBVIOUS
    <3> QED
      BY <1>2, <1>3, <2>2, <3>1
  <2>3. CASE r # x /\ ~(On' \subseteq On)
    <3>1. On' \subseteq On \cup {x} /\ Alone(x) /\ r \in On /\ Alone(r) /\ Clean(r)
      BY <1>1, <1>3, <2>3
    <3> SUFFICES ASSUME NEW s \in On', s # r, Clean(s)', Ends(s)' \cap Ends(r)' # {}
                 PROVE  FALSE
      BY DEF Alone
    <3>2. Ends(s) \cap Ends(r) # {} /\ Clean(s)
      BY <1>1
    <3> QED
      BY <2>3, <3>1, <3>2 DEF Alone
  <2> QED
    BY <2>1, <2>2, <2>3
<1> QED
  BY <1>2, <1>3

\* A command that is clear of others concerns nobody another is in the middle of.
LEMMA NobodyElse ==
    ASSUME Inv, KeysInv, NEW h \in Handler, Untainted(h), NEW g \in Handler, g # h,
           NEW r \in Used, Ends(r) \cap Scope(cmd[h]) # {}
    PROVE  ~Middle(g, r)
<1> SUFFICES ASSUME Middle(g, r) PROVE FALSE
  OBVIOUS
<1>1. Ends(r) \subseteq Scope(cmd[g])
  BY MiddleConcerns DEF KeysInv, Grounded, Inv
<1>2. Scope(cmd[g]) \cap Scope(cmd[h]) # {}
  BY <1>1
<1> QED
  BY <1>2 DEF KeysInv, Scopes, Untainted

\* A step by which h goes on from c to d keeps the invariant when it keeps to
\* the peers it concerns, and, if c was where it said and d is clear of others,
\* d is where it says and the keys of clean peers agree, or h is in the middle
\* of them.
LEMMA StepKeeps ==
    ASSUME Inv, KeysInv, NEW h \in Handler, NEW c, c = cmd[h], NEW d, Go(h, d), c.op # "none",
           NEW F, F \subseteq Footprint(h), Within(F), party' = party,
           On' \subseteq Used, Rooted',
           d.at # "done" => d.op # "none" /\ d.me = c.me /\ GroundedAs(d),
           \A s \in d.old : s \in c.old \/ Ends(s) \subseteq mixed',
           PosedAs(c) /\ d.at # "done" /\ Scope(d) \cap mixed' = {} => PosedAs(d)',
           NEW x, PosedAs(c) => On' \subseteq On \/ (On' \subseteq On \cup {x} /\ Alone(x)),
           \A r \in Used : /\ PosedAs(c) /\ Clean(r) /\ Clean(r)'
                           /\ MiddleAs(c, r) \/ (Agreed(r) /\ Ends(r) \cap F # {})
                           /\ r \in On => Alone(r)
                           => Agreed(r)' \/ (d.at # "done" /\ MiddleAs(d, r))
    PROVE  KeysInv'
<1>1. /\ Moves(h, F) /\ cmd'[h] = IF d.at = "done" THEN Nothing ELSE d
      /\ \A r : Ends(r)' = Ends(r)
      /\ Used' = Used /\ mixed \subseteq mixed'
  BY GoMoves
<1>2. c.me \in Peer /\ Tables /\ GroundedAs(c)
  BY DEF Inv, Handlers, Sound, Placed, KeysInv, Grounded
<1>3. /\ Nothing.op = "none" /\ Nothing.old = {} /\ Nothing.id = None /\ Nothing.req = None
      /\ Nothing.at = "done"
  BY DEF Nothing
<1>4. GroundedAs(cmd[h])'
  <2>1. CASE d.at = "done"
    <3>1. cmd'[h] = Nothing
      BY <1>1, <2>1
    <3> QED
      BY <1>3, <3>1 DEF GroundedAs
  <2>2. CASE d.at # "done"
    BY <1>1, <2>2 DEF GroundedAs
  <2> QED
    BY <2>1, <2>2
<1>5. \A s \in cmd'[h].old : s \in cmd[h].old \/ Ends(s)' \subseteq mixed'
  BY <1>1, <1>3
<1>6. ASSUME Untainted(h)' PROVE Posed(h)'
  <2>1. cmd'[h].op = "none" \/ cmd'[h].me = cmd[h].me
    BY <1>1, <1>3
  <2>2. Posed(h) /\ cmd'[h].op # "none" /\ Scope(cmd'[h]) \cap mixed' = {}
    BY <1>1, <1>2, <1>6, <2>1, StaysUntainted
  <2>3. cmd'[h] = d /\ d.at # "done"
    BY <1>1, <1>3, <2>2
  <2>4. PosedAs(d)'
    BY <2>2, <2>3 DEF Posed
  <2> QED
    BY <2>3, <2>4 DEF Posed
<1>7. ASSUME NEW r \in Used, Clean(r)', Ends(r) \cap F # {} \/ Middle(h, r)
      PROVE  Right(r)'
  <2>1. Clean(r) /\ Ends(r) \cap mixed = {}
    BY <1>1, <1>7 DEF Clean
  <2>2. Ends(r) \cap Scope(c) # {}
    <3>1. CASE Middle(h, r)
      BY <1>2, <3>1, MiddleConcerns
    <3>2. CASE Ends(r) \cap F # {}
      <4>1. PICK p : p \in Ends(r) /\ p \in F
        BY <3>2
      <4>2. \A s \in c.old : Ends(s) \subseteq mixed
        BY DEF KeysInv, Olds
      <4>3. p \in Scope(c)
        BY <2>1, <4>1, <4>2 DEF Footprint
      <4> QED
        BY <4>1, <4>3
    <3> QED
      BY <1>7, <3>1, <3>2
  <2>3. Untainted(h)
    BY <2>1, <2>2 DEF Untainted
  <2>4. PosedAs(c)
    BY <2>3 DEF KeysInv, Posed
  <2>5. \A g \in Handler : g # h => ~Middle(g, r)
    BY <2>2, <2>3, NobodyElse
  <2>6. (Middle(h, r) \/ Agreed(r)) /\ (r \in On => Alone(r))
    <3>1. r \in Id
      BY <1>2, EndsAre DEF Used
    <3>2. ~Waning(r)
      BY <2>2 DEF Waning
    <3> QED
      BY <2>1, <2>5, <3>1, <3>2 DEF KeysInv, Agreement
  <2>7. Middle(h, r) <=> MiddleAs(c, r)
    BY DEF Middle
  <2>8. Agreed(r)' \/ (d.at # "done" /\ MiddleAs(d, r))
    BY <1>7, <2>1, <2>4, <2>6, <2>7
  <2>9. d.at # "done" /\ MiddleAs(d, r) => Middle(h, r)'
    BY <1>1 DEF Middle, MiddleAs
  <2>10. r \in On' => Alone(r)'
    <3>1. On' \subseteq On \/ (On' \subseteq On \cup {x} /\ Alone(x))
      BY <2>4
    <3> QED
      BY <1>1, <1>2, <1>7, <2>6, <3>1, AloneStays
  <2> QED
    BY <2>8, <2>9, <2>10 DEF Right
<1>8. \A r \in Used' : Clean(r)' /\ (r \notin Used \/ Ends(r) \cap F # {} \/ Middle(h, r)) => Right(r)'
  BY <1>1, <1>7
<1> HIDE DEF KeysInv
<1> QED
  BY <1>1, <1>4, <1>5, <1>6, <1>8, MovesKeep

\* What keys say stays when none changes.
LEMMA Quiet ==
    ASSUME UNCHANGED <<from, to, sess, open, live, party>>, mixed \subseteq mixed'
    PROVE  \A r : /\ Alone(r) => Alone(r)'
                  /\ Unmet(r)' <=> Unmet(r)
                  /\ Gone(r)' <=> Gone(r)
                  /\ Agreed(r)' <=> Agreed(r)
                  /\ Ends(r)' = Ends(r)
                  /\ Clean(r)' => Clean(r)
<1>1. /\ \A r : Ends(r)' = Ends(r)
      /\ \A r : Clean(r)' => Clean(r)
  BY DEF Clean, Ends, Used
<1>2. \A r : Alone(r) => Alone(r)'
  BY <1>1 DEF Alone, On
<1> QED
  BY <1>1, <1>2 DEF Unmet, Gone, Agreed

\* A step that only reads keeps the invariant when it leaves its command where
\* it says.
LEMMA QuietKeeps ==
    ASSUME Inv, KeysInv, NEW h \in Handler, NEW c, c = cmd[h], NEW d, Go(h, d), c.op # "none",
           UNCHANGED <<from, to, sess, open, live, party>>,
           d.at # "done" => d.op # "none" /\ d.me = c.me /\ GroundedAs(d),
           \A s \in d.old : s \in c.old \/ Ends(s) \subseteq mixed',
           PosedAs(c) /\ d.at # "done" /\ Scope(d) \cap mixed' = {} => PosedAs(d)',
           \A r : PosedAs(c) /\ Clean(r) /\ MiddleAs(c, r) => d.at # "done" /\ MiddleAs(d, r)
    PROVE  KeysInv'
<1>1. On' \subseteq On /\ On \subseteq Used
  BY EndsAre DEF On, Inv
<1>2. Within({})
  BY DEF Within
<1>3. Rooted'
  BY DEF KeysInv, Rooted
<1> HIDE DEF KeysInv
<1>4. {} \subseteq Footprint(h) /\ On' \subseteq Used /\ party' = party
  BY <1>1
<1>5. PICK x : x = None
  OBVIOUS
<1>6. PosedAs(c) => On' \subseteq On \/ (On' \subseteq On \cup {x} /\ Alone(x))
  BY <1>1
<1>7. \A r \in Used : /\ PosedAs(c) /\ Clean(r) /\ Clean(r)'
                      /\ MiddleAs(c, r) \/ (Agreed(r) /\ Ends(r) \cap {} # {})
                      /\ r \in On => Alone(r)
                      => Agreed(r)' \/ (d.at # "done" /\ MiddleAs(d, r))
  OBVIOUS
<1> QED
  BY <1>2, <1>3, <1>4, <1>6, <1>7, StepKeeps

\* In a step of h that goes on with d, what is clear of others before and after.
LEMMA GoClear ==
    ASSUME Inv, KeysInv, NEW h \in Handler, NEW c, c = cmd[h], NEW d, Go(h, d), c.op # "none",
           d.at # "done", d.op # "none", party' = party, NEW r \in Used, r \in {d.id, d.req},
           Scope(d) \cap mixed' = {}
    PROVE  /\ Clean(r) /\ Clean(r)'
           /\ \A g \in Handler : g # h => ~Middle(g, r)
           /\ r \in On => Alone(r)
           /\ ~MiddleAs(c, r) => Agreed(r)
<1>1. cmd' = [cmd EXCEPT ![h] = d] /\ mixed' = Mixed(cmd', Fading) /\ cmd \in [Handler -> Commands]
  BY DEF Go, Become, Inv, Handlers
<1>2. /\ mixed \subseteq mixed'
      /\ \A f, g \in Handler : f # g /\ Scope(cmd'[f]) \cap Scope(cmd'[g]) # {}
                 => Scope(cmd'[f]) \cup Scope(cmd'[g]) \subseteq mixed'
  BY <1>1, MixedIs
<1>3. Ends(r) \subseteq Scope(d) /\ Ends(r) # {} /\ Ends(r)' = Ends(r) /\ Used' = Used
  BY ScopeIs, EndsAre, ScopeSame DEF Inv
<1>4. Clean(r) /\ Clean(r)'
  BY <1>2, <1>3 DEF Clean
<1>5. ASSUME NEW g \in Handler, g # h, Middle(g, r) PROVE FALSE
  <2>1. Ends(r) \subseteq Scope(cmd[g])
    BY <1>5, MiddleConcerns DEF Inv, KeysInv, Grounded
  <2>2. cmd'[g] = cmd[g] /\ cmd'[h] = d
    BY <1>1, <1>5
  <2>3. Scope(cmd'[g]) \cap Scope(cmd'[h]) # {}
    BY <1>3, <2>1, <2>2
  <2>4. Scope(cmd'[h]) \subseteq mixed'
    BY <1>2, <1>5, <2>3
  <2> QED
    BY <1>3, <2>2, <2>4
<1>6. (r \in On => Alone(r)) /\ (~MiddleAs(c, r) => Agreed(r))
  <2>1. r \in Id
    BY DEF Used
  <2>2. ~MiddleAs(c, r) => ~Middle(h, r)
    BY DEF Middle
  <2>3. r \notin Fading
    <3>1. r \in Fading => Scope(cmd'[h]) \cap Ends(r) = {} \/ Scope(cmd'[h]) \subseteq mixed'
      BY <1>1, MixedIs
    <3> QED
      BY <1>1, <1>3, <3>1
  <2> QED
    BY <1>4, <1>5, <2>1, <2>2, <2>3 DEF KeysInv, Agreement, Waning
<1> QED
  BY <1>4, <1>5, <1>6

\* How a command goes on from nothing found.
LEMMA MissingIs ==
    ASSUME NEW c \in Commands, c.op # "none", NEW d, d = Missing(c), c.op = "accepting" => c.key # "out"
    PROVE  /\ d.me = c.me /\ d.old = c.old /\ d.id = c.id /\ d.req = c.req /\ d.op # "none"
           /\ d.at \in {"done", "pointer", "blocked", "kill"}
           /\ d.at = "blocked" => d.op = "at"
           /\ d.at = "kill" => c.op = "accepting" /\ c.key = "sess"
           /\ d.op = "at" => c.op = "at"
           /\ d.op = "accepting" /\ d.key = "sess" /\ d.at # "done"
                 => /\ c.op = "accepting" /\ c.key = "sess"
                    /\ d.at = "pointer" => d.of = party[c.req][2]
<1>1. c.key \in {"sess", "out", "in"}
  BY DEF Commands
<1>2. \A key, p : LET l == Lookup(c, key, p)
                  IN  /\ l.me = c.me /\ l.old = c.old /\ l.id = c.id /\ l.req = c.req /\ l.op = c.op
                      /\ l.at = "pointer" /\ l.key = key /\ l.of = p
  BY DEF Commands, Lookup
<1>3. \A at : LET l == To(c, at)
              IN  /\ l.me = c.me /\ l.old = c.old /\ l.id = c.id /\ l.req = c.req /\ l.op = c.op
                  /\ l.at = at /\ l.key = c.key
  BY DEF Commands, To
<1>4. CASE c.op = "at"
  BY <1>1, <1>2, <1>3, <1>4 DEF Missing
<1>5. CASE c.op = "accept"
  <2>1. PICK e : e = [c EXCEPT !.op = "accepting"]
    OBVIOUS
  <2>2. e.me = c.me /\ e.old = c.old /\ e.id = c.id /\ e.req = c.req /\ e.op = "accepting" /\ e \in Commands
    BY <2>1 DEF Commands, Ops
  <2>3. d = Lookup(e, "in", c.me)
    BY <1>5, <2>1 DEF Missing
  <2>4. /\ d.me = e.me /\ d.old = e.old /\ d.id = e.id /\ d.req = e.req /\ d.op = e.op
        /\ d.at = "pointer" /\ d.key = "in"
    BY <2>2, <2>3 DEF Commands, Lookup
  <2> QED
    BY <1>5, <2>2, <2>4
<1>6. CASE c.op = "accepting" /\ c.key = "sess"
  BY <1>2, <1>3, <1>6 DEF Missing, AcceptNext
<1>7. CASE c.op = "block"
  BY <1>1, <1>2, <1>3, <1>7 DEF Missing, EndNext
<1>8. CASE c.op \notin {"at", "accept", "block"} /\ ~(c.op = "accepting" /\ c.key = "sess")
  <2>1. d = To(c, "done")
    BY <1>8 DEF Missing
  <2> QED
    BY <1>3, <1>8, <2>1
<1> QED
  BY <1>4, <1>5, <1>6, <1>7, <1>8

\* It is where it says then.
LEMMA MissingPosed ==
    ASSUME NEW c \in Commands, c.at \in Lookups, c.op # "none", c.op = "accepting" => c.key # "out",
           NEW b, b = [c EXCEPT !.id = None], NEW d, d = Missing(b), GroundedAs(c), party' = party
    PROVE  /\ d.me = c.me /\ d.old = c.old /\ d.op # "none" /\ GroundedAs(d)
           /\ PosedAs(c) /\ (c.op = "accepting" /\ c.key = "sess"
                                => Alone(c.req)' /\ Unmet(c.req)' /\ Gone(c.req)')
                 => PosedAs(d)'
           /\ \A r : ~MiddleAs(c, r)
<1>1. /\ b \in Commands /\ b.me = c.me /\ b.old = c.old /\ b.id = None /\ b.req = c.req
      /\ b.op = c.op /\ b.key = c.key
  BY DEF Commands
<1>2. /\ d.me = c.me /\ d.old = c.old /\ d.id = None /\ d.req = c.req /\ d.op # "none"
      /\ d.at \in {"done", "pointer", "blocked", "kill"}
      /\ d.at = "blocked" => d.op = "at"
      /\ d.at = "kill" => c.op = "accepting" /\ c.key = "sess"
      /\ d.op = "accepting" /\ d.key = "sess" /\ d.at # "done"
            => /\ c.op = "accepting" /\ c.key = "sess"
               /\ d.at = "pointer" => d.of = party[c.req][2]
  <2>1. b.op # "none" /\ (b.op = "accepting" => b.key # "out")
    BY <1>1
  <2>2. /\ d.me = b.me /\ d.old = b.old /\ d.id = b.id /\ d.req = b.req /\ d.op # "none"
        /\ d.at \in {"done", "pointer", "blocked", "kill"}
        /\ d.at = "blocked" => d.op = "at"
        /\ d.at = "kill" => b.op = "accepting" /\ b.key = "sess"
        /\ d.op = "accepting" /\ d.key = "sess" /\ d.at # "done"
              => /\ b.op = "accepting" /\ b.key = "sess"
                 /\ d.at = "pointer" => d.of = party[b.req][2]
    <3>1. b \in Commands /\ d = Missing(b)
      BY <1>1
    <3> QED
      BY <2>1, <3>1, MissingIs, ZenonT(40)
  <2> QED
    BY <1>1, <2>2
<1>3. GroundedAs(d)
  <2>1. {d.id, d.req} \subseteq Used \cup {None} /\ d.old \subseteq Used
    BY <1>2 DEF GroundedAs
  <2>2. d.at \notin {"from", "to", "undo", "request"}
    BY <1>2
  <2> QED
    BY <2>1, <2>2 DEF GroundedAs
<1>4. \A r : ~MiddleAs(c, r)
  BY DEF MiddleAs, Lookups
<1>5. ASSUME PosedAs(c), c.op = "accepting" /\ c.key = "sess"
                             => Alone(c.req)' /\ Unmet(c.req)' /\ Gone(c.req)'
      PROVE  PosedAs(d)'
  <2>1. d.old = {}
    BY <1>2, <1>5 DEF PosedAs
  <2>2. d.op = "accepting" /\ ((d.key = "sess" /\ d.at \in {"pointer", "row", "drop", "kill"}) \/ d.at = "save")
          => Alone(d.req)' /\ Unmet(d.req)' /\ Gone(d.req)'
    BY <1>2, <1>5
  <2>3. d.op = "accepting" /\ d.key = "sess" /\ d.at \in {"pointer", "row", "drop"} => d.of \in Ends(d.req)'
    BY <1>2 DEF Ends
  <2>4. d.at = "kill" => d.op = "accepting"
    <3>1. CASE c.op = "accepting" /\ c.key = "sess" /\ d.at = "kill"
      <4>1. d.op = "accepting"
        BY <1>1, <3>1 DEF Missing, AcceptNext, Lookup, To, Commands
      <4> QED
        BY <4>1
    <3> QED
      BY <1>2, <3>1
  <2> QED
    BY <1>2, <2>1, <2>2, <2>3, <2>4 DEF PosedAs
<1> QED
  BY <1>2, <1>3, <1>4, <1>5

-----------------------------------------------------------------------------
(* Each step keeps it *)

\* Reading where a key of a peer leads.
LEMMA ReadPointerKeepsKeys ==
    ASSUME Inv, KeysInv, NEW h \in Handler, ReadPointer(h) PROVE KeysInv'
<1>1. PICK c : c = cmd[h]
  OBVIOUS
<1>2. PICK q : q = Pointer(c.key, c.of)
  OBVIOUS
<1>3. PICK d : d = IF q = None THEN Missing([c EXCEPT !.id = None]) ELSE To([c EXCEPT !.id = q], "row")
  OBVIOUS
<1>4. c.at = "pointer" /\ Go(h, d) /\ UNCHANGED <<from, to, sess, open, live, party>>
  BY <1>1, <1>2, <1>3 DEF ReadPointer, keys
<1>5. /\ Sound(c, party, accepted, blocks) /\ c \in Commands /\ Placed(c) /\ c.op # "none"
      /\ Pointers /\ Tables /\ GroundedAs(c)
  BY <1>1, <1>4, HandlerSound DEF Sound, Placed, KeysInv, Grounded
<1>6. c.of \in Peer /\ (c.op = "accepting" => c.key # "out") /\ c.at \in Lookups /\ c.key \in {"sess", "out", "in"}
  BY <1>4, <1>5 DEF Placed, Lookups, Commands
<1>7. mixed \subseteq mixed'
  BY <1>4, MixedIs DEF Go, Become
<1>8. \A r : /\ Alone(r) => Alone(r)'
             /\ Unmet(r)' <=> Unmet(r)
             /\ Gone(r)' <=> Gone(r)
             /\ Ends(r)' = Ends(r)
  BY <1>4, <1>7, Quiet
<1>9. PosedAs(c) /\ c.op = "accepting" /\ c.key = "sess" => /\ Alone(c.req) /\ Unmet(c.req) /\ Gone(c.req)
                                                            /\ c.of \in Ends(c.req)
  BY <1>4 DEF PosedAs
<1>10. CASE q = None
  <2>1. PICK b : b = [c EXCEPT !.id = None]
    OBVIOUS
  <2>2. d = Missing(b)
    BY <1>3, <1>10, <2>1
  <2>3. /\ d.me = c.me /\ d.old = c.old /\ d.op # "none" /\ GroundedAs(d)
        /\ PosedAs(c) => PosedAs(d)'
        /\ \A r : ~MiddleAs(c, r)
    BY <1>4, <1>5, <1>6, <1>8, <1>9, <2>1, <2>2, MissingPosed
  <2> QED
    BY <1>1, <1>4, <1>5, <2>3, QuietKeeps
<1>11. CASE q # None
  <2>1. /\ d.me = c.me /\ d.old = c.old /\ d.op = c.op /\ d.id = q /\ d.req = c.req /\ d.at = "row"
        /\ d.key = c.key /\ d.of = c.of
    BY <1>3, <1>5, <1>11 DEF Commands, To
  <2>2. Known(q, party) /\ q \in Used
    BY <1>2, <1>5, <1>6, <1>11, EndsAre DEF Pointers, Pointer
  <2>3. GroundedAs(d)
    BY <1>5, <2>1, <2>2 DEF GroundedAs
  <2>4. ASSUME PosedAs(c) PROVE PosedAs(d)'
    <3>1. d.old = {}
      BY <2>1, <2>4 DEF PosedAs
    <3>2. Pointer(d.key, d.of)' = d.id
      BY <1>2, <1>4, <2>1 DEF Pointer
    <3>3. d.op = "accepting" /\ d.key = "sess" => /\ Alone(d.req)' /\ Unmet(d.req)' /\ Gone(d.req)'
                                                  /\ d.of \in Ends(d.req)'
      BY <1>8, <1>9, <2>1, <2>4
    <3>4. d.op = "accepting" /\ d.key = "sess" => d.id \notin live'
      <4> SUFFICES ASSUME d.op = "accepting", d.key = "sess" PROVE d.id \notin live
        BY <1>4
      <4>1. Unmet(c.req) /\ c.of \in Ends(c.req) /\ q = sess[c.of]
        BY <1>2, <1>9, <2>1, <2>4 DEF Pointer
      <4> QED
        BY <2>1, <4>1 DEF Unmet, Ends
    <3> QED
      BY <2>1, <3>1, <3>2, <3>3, <3>4 DEF PosedAs
  <2>5. \A r : ~MiddleAs(c, r)
    BY <1>4 DEF MiddleAs
  <2> QED
    BY <1>1, <1>4, <1>5, <2>1, <2>3, <2>4, <2>5, QuietKeeps
<1> QED
  BY <1>10, <1>11

\* How a command goes on from a row found.
LEMMA FoundIs ==
    ASSUME NEW c \in Commands, c.op # "none", NEW d, d = Found(c), c.op = "accepting" => c.key # "out"
    PROVE  /\ d.me = c.me /\ d.id = c.id /\ d.op = c.op
           /\ c.op = "accepting" /\ c.key = "sess" =>
                 /\ d.old = c.old \cup {c.id} /\ d.req = c.req
           /\ ~(c.op = "accepting" /\ c.key = "sess") =>
                 /\ d.old = c.old
                 /\ d.at \in {"done", "blocked", "delete", "kill", "touch"}
                 /\ d.op = "accepting" => d.req = c.id /\ d.at \in {"done", "delete"} /\ d.key = "in"
                 /\ d.op # "accepting" => d.req = c.req
                 /\ d.at = "blocked" => d.op = "accept"
                 /\ d.at = "touch" => d.op = "relay"
           /\ d.at \notin {"from", "to", "undo", "request"}
<1>1. c.key \in {"sess", "out", "in"} /\ c.op \in Ops \ {"none"}
  BY DEF Commands
<1>3. \A at : LET l == To(c, at)
              IN  /\ l.me = c.me /\ l.old = c.old /\ l.id = c.id /\ l.req = c.req /\ l.op = c.op
                  /\ l.at = at /\ l.key = c.key
  BY DEF Commands, To
<1>4. CASE c.op = "accepting" /\ c.key = "in"
  <2>1. PICK e : e = [c EXCEPT !.req = c.id]
    OBVIOUS
  <2>2. /\ e.me = c.me /\ e.old = c.old /\ e.id = c.id /\ e.req = c.id /\ e.op = c.op /\ e.key = "in"
        /\ e \in Commands
    BY <1>4, <2>1 DEF Commands
  <2>3. PICK at \in {"done", "delete"} : d = [e EXCEPT !.at = at]
    BY <1>4, <2>1 DEF Found, To
  <2>4. /\ d.me = e.me /\ d.old = e.old /\ d.id = e.id /\ d.req = e.req /\ d.op = e.op /\ d.key = e.key
        /\ d.at = at
    BY <2>2, <2>3 DEF Commands
  <2> QED
    BY <1>4, <2>2, <2>3, <2>4
<1>5. CASE c.op = "accepting" /\ c.key = "sess"
  <2>1. PICK e : e = [c EXCEPT !.old = @ \cup {c.id}]
    OBVIOUS
  <2>2. /\ e.me = c.me /\ e.old = c.old \cup {c.id} /\ e.id = c.id /\ e.req = c.req /\ e.op = c.op
        /\ DOMAIN e = DOMAIN c
    BY <2>1 DEF Commands
  <2>3. d = AcceptNext(e)
    BY <1>5, <2>1 DEF Found
  <2>4. d = Lookup(e, "sess", party[e.req][2]) \/ d = To(e, "kill")
    BY <2>3 DEF AcceptNext
  <2>5. DOMAIN e = {"op", "at", "me", "with", "key", "of", "id", "req", "old", "barred"}
    BY <2>2 DEF Commands
  <2>6. CASE d = Lookup(e, "sess", party[e.req][2])
    <3>1. PICK p : p = party[e.req][2]
      OBVIOUS
    <3>2. d = [e EXCEPT !.at = "pointer", !.key = "sess", !.of = p]
      BY <2>6, <3>1 DEF Lookup
    <3>3. /\ d.me = e.me /\ d.old = e.old /\ d.id = e.id /\ d.req = e.req /\ d.op = e.op
          /\ d.at = "pointer"
      BY <2>5, <3>2
    <3> QED
      BY <1>5, <2>2, <3>3
  <2>7. CASE d = To(e, "kill")
    <3>1. d = [e EXCEPT !.at = "kill"]
      BY <2>7 DEF To
    <3>2. /\ d.me = e.me /\ d.old = e.old /\ d.id = e.id /\ d.req = e.req /\ d.op = e.op
          /\ d.at = "kill"
      BY <2>5, <3>1
    <3> QED
      BY <1>5, <2>2, <3>2
  <2> QED
    BY <2>4, <2>6, <2>7
<1>6. CASE c.op = "accept"
  BY <1>3, <1>6 DEF Found
<1>7. CASE c.op \in {"reject", "cancel", "disconnect"}
  BY <1>3, <1>7 DEF Found
<1>8. CASE c.op = "relay"
  BY <1>3, <1>8 DEF Found
<1>9. CASE c.op = "block"
  BY <1>3, <1>9 DEF Found
<1>10. CASE c.op = "at"
  BY <1>3, <1>10 DEF Found
<1> QED
  BY <1>1, <1>4, <1>5, <1>6, <1>7, <1>8, <1>9, <1>10 DEF Ops

\* Reading the row a key leads to.
LEMMA ReadRowKeepsKeys ==
    ASSUME Inv, KeysInv, NEW h \in Handler, ReadRow(h) PROVE KeysInv'
<1>1. PICK c : c = cmd[h]
  OBVIOUS
<1>2. PICK d : d = IF c.id \in Rows(c.key) THEN Found(c) ELSE To(c, "drop")
  OBVIOUS
<1>3. c.at = "row" /\ Go(h, d) /\ UNCHANGED <<from, to, sess, open, live, party>>
  BY <1>1, <1>2 DEF ReadRow, keys
<1>4. /\ Sound(c, party, accepted, blocks) /\ c \in Commands /\ Placed(c) /\ c.op # "none"
      /\ Pointers /\ Tables /\ GroundedAs(c) /\ c.id \in Used
  <2>1. Sound(c, party, accepted, blocks) /\ Pointers /\ Tables /\ GroundedAs(c)
    BY <1>1, HandlerSound DEF KeysInv, Grounded
  <2>2. Known(c.id, party)
    BY <1>3, <2>1 DEF Sound, Founded
  <2> QED
    BY <1>3, <2>1, <2>2, EndsAre DEF Sound, Placed
<1>5. c.of \in Peer /\ (c.op = "accepting" => c.key # "out") /\ c.key \in {"sess", "out", "in"}
  BY <1>3, <1>4 DEF Placed, Lookups, Commands
<1>6. mixed \subseteq mixed'
  BY <1>3, MixedIs DEF Go, Become
<1>7. \A r : /\ Alone(r) => Alone(r)'
             /\ Unmet(r)' <=> Unmet(r)
             /\ Gone(r)' <=> Gone(r)
             /\ Ends(r)' = Ends(r)
             /\ Clean(r)' => Clean(r)
  BY <1>3, <1>6, Quiet
<1>8. \A r : ~MiddleAs(c, r)
  BY <1>3 DEF MiddleAs
<1>9. CASE c.id \notin Rows(c.key)
  <2>1. /\ d.me = c.me /\ d.old = c.old /\ d.op = c.op /\ d.id = c.id /\ d.req = c.req /\ d.at = "drop"
        /\ d.key = c.key /\ d.of = c.of
    BY <1>2, <1>4, <1>9 DEF Commands, To
  <2>2. GroundedAs(d)
    BY <1>4, <2>1 DEF GroundedAs
  <2>3. ASSUME PosedAs(c) PROVE PosedAs(d)'
    <3>1. /\ d.old = {} /\ Pointer(c.key, c.of) \in {c.id, None}
          /\ c.op = "accepting" /\ c.key = "sess" =>
                c.id \notin live /\ Alone(c.req) /\ Unmet(c.req) /\ Gone(c.req) /\ c.of \in Ends(c.req)
      BY <1>3, <2>1, <2>3 DEF PosedAs
    <3>2. Pointer(d.key, d.of)' \in {d.id, None} /\ d.id \notin Rows(d.key)'
      BY <1>3, <1>9, <2>1, <3>1 DEF Pointer, Rows
    <3>3. d.op = "accepting" /\ d.key = "sess" =>
                d.id \notin live' /\ Alone(d.req)' /\ Unmet(d.req)' /\ Gone(d.req)' /\ d.of \in Ends(d.req)'
      BY <1>3, <1>7, <2>1, <3>1
    <3> QED
      BY <2>1, <3>1, <3>2, <3>3 DEF PosedAs
  <2> QED
    BY <1>1, <1>3, <1>4, <1>8, <2>1, <2>2, <2>3, QuietKeeps
<1>10. CASE c.id \in Rows(c.key)
  <2>1. d = Found(c)
    BY <1>2, <1>10
  <2>2. /\ d.me = c.me /\ d.id = c.id /\ d.op = c.op
        /\ c.op = "accepting" /\ c.key = "sess" =>
              /\ d.old = c.old \cup {c.id} /\ d.req = c.req
        /\ ~(c.op = "accepting" /\ c.key = "sess") =>
              /\ d.old = c.old
              /\ d.at \in {"done", "blocked", "delete", "kill", "touch"}
              /\ d.op = "accepting" => d.req = c.id /\ d.at \in {"done", "delete"} /\ d.key = "in"
              /\ d.op # "accepting" => d.req = c.req
              /\ d.at = "touch" => d.op = "relay"
        /\ d.at \notin {"from", "to", "undo", "request"}
    BY <1>4, <1>5, <2>1, FoundIs
  <2>3. GroundedAs(d)
    <3>1. {d.id, d.req} \subseteq Used \cup {None}
      BY <1>4, <2>2 DEF GroundedAs
    <3>2. d.old \subseteq Used
      BY <1>4, <2>2 DEF GroundedAs
    <3> QED
      BY <2>2, <3>1, <3>2 DEF GroundedAs
  <2>4. CASE c.op = "accepting" /\ c.key = "sess"
    <3>1. ~PosedAs(c)
      BY <1>3, <1>10, <2>4 DEF PosedAs, Rows
    <3>2. Ends(c.id) \subseteq mixed'
      <4>1. ~Untainted(h)
        BY <1>1, <3>1 DEF KeysInv, Posed
      <4>2. Ends(c.id) \subseteq Scope(c)
        BY <1>4, ScopeIs
      <4> QED
        BY <1>1, <1>6, <4>1, <4>2 DEF Untainted
    <3> QED
      BY <1>1, <1>3, <1>4, <1>8, <2>2, <2>3, <2>4, <3>1, <3>2, QuietKeeps
  <2>5. CASE ~(c.op = "accepting" /\ c.key = "sess")
    <3>1. ASSUME PosedAs(c), d.at # "done", Scope(d) \cap mixed' = {} PROVE PosedAs(d)'
      <4>1. c.id \in On
        BY <1>5, <1>10 DEF On, Rows
      <4>2. d.op # "none"
        BY <1>4, <2>2
      <4>3. Alone(c.id) /\ Agreed(c.id) /\ Clean(c.id)
        BY <1>1, <1>3, <1>4, <1>8, <2>2, <3>1, <4>1, <4>2, GoClear
      <4>4. Alone(d.id)'
        BY <1>7, <2>2, <4>3
      <4>5. d.op = "accepting" /\ d.at = "delete" => Unmet(d.id)'
        BY <1>5, <1>7, <1>10, <2>2, <2>5, <4>3 DEF Rows, Agreed
      <4>6. d.at = "touch" => d.id \notin open'
        <5>1. d.at = "touch" => c.op = "relay" /\ c.key = "sess"
          BY <1>4, <2>2, <2>5 DEF Placed
        <5> QED
          BY <1>3, <1>10, <2>2, <4>3, <5>1 DEF Rows, Agreed, Unmet
      <4>7. d.old = {}
        BY <2>2, <2>5, <3>1 DEF PosedAs
      <4> QED
        BY <2>2, <2>5, <4>4, <4>5, <4>6, <4>7 DEF PosedAs
    <3> QED
      BY <1>1, <1>3, <1>4, <1>8, <2>2, <2>3, <2>5, <3>1, QuietKeeps
  <2> QED
    BY <2>4, <2>5
<1> QED
  BY <1>9, <1>10

\* A step that deletes or overwrites the pointer a lookup went by.
LEMMA DropPointerKeepsKeys ==
    ASSUME Inv, KeysInv, NEW h \in Handler, DropPointer(h) PROVE KeysInv'
<1>1. PICK c : c = cmd[h]
  OBVIOUS
<1>2. PICK b : b = [c EXCEPT !.id = None]
  OBVIOUS
<1>3. PICK d : d = Missing(b)
  OBVIOUS
<1>4. /\ c.at = "drop" /\ Go(h, d) /\ UNCHANGED <<open, live, party>>
      /\ sess' = IF c.key = "sess" THEN [sess EXCEPT ![c.of] = None] ELSE sess
      /\ from' = IF c.key = "out" THEN [from EXCEPT ![c.of] = None] ELSE from
      /\ to' = IF c.key = "in" THEN [to EXCEPT ![c.of] = None] ELSE to
  BY <1>1, <1>2, <1>3 DEF DropPointer
<1>5. /\ Sound(c, party, accepted, blocks) /\ c \in Commands /\ Placed(c) /\ c.op # "none"
      /\ Pointers /\ Tables /\ GroundedAs(c)
  BY <1>1, <1>4, HandlerSound DEF Sound, Placed, KeysInv, Grounded
<1>6. c.of \in Peer /\ (c.op = "accepting" => c.key # "out") /\ c.at \in Lookups /\ c.key \in {"sess", "out", "in"}
  BY <1>4, <1>5 DEF Placed, Lookups, Commands
<1>7. \A p \in Peer : /\ sess'[p] = IF c.key = "sess" /\ p = c.of THEN None ELSE sess[p]
                      /\ from'[p] = IF c.key = "out" /\ p = c.of THEN None ELSE from[p]
                      /\ to'[p] = IF c.key = "in" /\ p = c.of THEN None ELSE to[p]
  BY <1>4, <1>5 DEF Pointers
<1>8. /\ mixed \subseteq mixed' /\ On' \subseteq On /\ On \subseteq Used
      /\ None \notin live /\ None \notin Used
  BY <1>4, <1>5, MixedIs, EndsAre DEF Go, Become, On
<1>9. /\ {c.of} \subseteq Footprint(h) /\ Within({c.of})
  <2>1. c.of \in Scope(c)
    BY <1>5, <1>6, ScopeIs, Distinct
  <2>2. Within({c.of})
    BY <1>4, <1>7 DEF Within
  <2> QED
    BY <1>1, <2>1, <2>2 DEF Footprint
<1>10. Rooted'
  BY <1>4, <1>7 DEF KeysInv, Rooted
<1>11. \A r : Alone(r) => Alone(r)'
  <2>1. PICK x : x = None
    OBVIOUS
  <2> QED
    BY <1>4, <1>5, <1>8, AloneStays
<1>12. \A r \in Used : (Unmet(r) => Unmet(r)') /\ (Gone(r) => Gone(r)')
  <2> SUFFICES ASSUME NEW r \in Used PROVE (Unmet(r) => Unmet(r)') /\ (Gone(r) => Gone(r)')
    OBVIOUS
  <2>1. party[r][1] \in Peer /\ party[r][2] \in Peer
    BY <1>5, EndsAre
  <2> QED
    BY <1>4, <1>7, <1>8, <2>1 DEF Unmet, Gone
<1>13. /\ d.me = c.me /\ d.old = c.old /\ d.op # "none" /\ GroundedAs(d)
       /\ PosedAs(c) => PosedAs(d)'
       /\ \A r : ~MiddleAs(c, r)
  <2>1. c.op = "accepting" /\ c.key = "sess" => c.req \in Used
    <3>1. c.op = "accepting" /\ c.key = "sess" => c.req \in accepted
      BY <1>5, <1>6 DEF Sound, Founded
    <3> QED
      BY <1>5, <3>1, EndsAre, HandlerSound
  <2>2. PosedAs(c) => (c.op = "accepting" /\ c.key = "sess" => Alone(c.req)' /\ Unmet(c.req)' /\ Gone(c.req)')
    BY <1>4, <1>11, <1>12, <2>1 DEF PosedAs
  <2> QED
    BY <1>2, <1>3, <1>4, <1>5, <1>6, <2>2, MissingPosed
<1>14. ASSUME NEW r \in Used, PosedAs(c), Agreed(r) PROVE Agreed(r)'
  <2>1. party[r][1] \in Peer /\ party[r][2] \in Peer
    BY <1>5, EndsAre
  <2>2. Pointer(c.key, c.of) \in {c.id, None} /\ c.id \notin Rows(c.key)
    BY <1>4, <1>14 DEF PosedAs
  <2>3. r \in open => Unmet(r)'
    BY <1>12, <1>14 DEF Agreed
  <2>4. from'[party[r][1]] = r <=> r \in open
    BY <1>7, <1>8, <1>14, <2>1, <2>2 DEF Agreed, Pointer, Rows
  <2>5. to'[party[r][2]] = r <=> r \in open
    BY <1>7, <1>8, <1>14, <2>1, <2>2 DEF Agreed, Pointer, Rows
  <2>6. r \in live => sess'[party[r][1]] = r /\ sess'[party[r][2]] = r
    BY <1>7, <1>8, <1>14, <2>1, <2>2 DEF Agreed, Pointer, Rows
  <2> QED
    BY <1>4, <2>3, <2>4, <2>5, <2>6 DEF Agreed
<1> HIDE DEF KeysInv
<1> QED
  BY <1>1, <1>4, <1>5, <1>8, <1>9, <1>10, <1>13, <1>14, StepKeeps

\* Deleting a request that is alone takes away nobody else's keys.
LEMMA DeleteRequestKeepsKeys ==
    ASSUME Inv, KeysInv, NEW h \in Handler, DeleteRequest(h) PROVE KeysInv'
<1>1. PICK c : c = cmd[h]
  OBVIOUS
<1>2. PICK d : d = CASE c.op = "accepting" -> Lookup(c, "sess", party[c.id][1])
                     [] c.op = "block" -> EndNext(c)
                     [] OTHER -> To(c, "done")
  OBVIOUS
<1>3. /\ c.at = "delete" /\ Go(h, d) /\ UNCHANGED <<sess, live, party>>
      /\ from' = Erase(from, {party[c.id][1]}) /\ to' = Erase(to, {party[c.id][2]})
      /\ open' = open \ {c.id}
  BY <1>1, <1>2 DEF DeleteRequest
<1>4. /\ Sound(c, party, accepted, blocks) /\ c \in Commands /\ Placed(c) /\ c.op # "none"
      /\ Pointers /\ Tables /\ GroundedAs(c) /\ c.id \in Used
      /\ c.op = "accepting" => c.req = c.id
  <2>1. Sound(c, party, accepted, blocks) /\ Pointers /\ Tables /\ GroundedAs(c)
    BY <1>1, HandlerSound DEF KeysInv, Grounded
  <2>2. Known(c.id, party) /\ (c.op = "accepting" => c.req = c.id)
    BY <1>3, <2>1 DEF Sound, Founded
  <2> QED
    BY <1>3, <2>1, <2>2, EndsAre DEF Sound, Placed
<1>5. /\ party[c.id][1] \in Peer /\ party[c.id][2] \in Peer /\ party[c.id][1] \in Ends(c.id)
      /\ party[c.id][2] \in Ends(c.id) /\ Ends(c.id) \subseteq Scope(c)
  BY <1>4, EndsAre, ScopeIs
<1>6. \A p \in Peer : /\ from'[p] = IF p = party[c.id][1] THEN None ELSE from[p]
                      /\ to'[p] = IF p = party[c.id][2] THEN None ELSE to[p]
  BY <1>3 DEF Erase
<1>7. /\ mixed \subseteq mixed' /\ On' \subseteq On /\ On \subseteq Used
      /\ None \notin live /\ None \notin Used
  BY <1>3, <1>4, MixedIs, EndsAre DEF Go, Become, On
<1>8. Ends(c.id) \subseteq Footprint(h) /\ Within(Ends(c.id))
  BY <1>1, <1>3, <1>5, <1>6 DEF Footprint, Within
<1>9. Rooted'
  BY <1>3, <1>6 DEF KeysInv, Rooted
<1>10. \A r : Alone(r) => Alone(r)'
  <2>1. PICK x : x = None
    OBVIOUS
  <2> QED
    BY <1>3, <1>4, <1>7, AloneStays
<1>11. \A r : Unmet(r)' <=> Unmet(r)
  BY <1>3 DEF Unmet
<1>12. Gone(c.id)'
  <2>1. c.id # None /\ c.id \notin open' /\ party' = party
    BY <1>3, <1>4, <1>7
  <2>2. from'[party[c.id][1]] = None /\ to'[party[c.id][2]] = None
    BY <1>5, <1>6
  <2> QED
    BY <2>1, <2>2 DEF Gone
<1>13. /\ d.me = c.me /\ d.old = c.old /\ d.op # "none" /\ d.id = c.id /\ d.req = c.req
       /\ d.at \in {"done", "pointer"}
       /\ d.op = c.op
       /\ c.op = "accepting" => d.of = party[c.id][1]
  <2>1. CASE c.op = "accepting"
    BY <1>2, <1>4, <2>1 DEF Lookup, Commands
  <2>2. CASE c.op = "block"
    BY <1>2, <1>4, <2>2 DEF EndNext, Lookup, To, Commands
  <2>3. CASE c.op \notin {"accepting", "block"}
    BY <1>2, <1>4, <2>3 DEF To, Commands
  <2> QED
    BY <2>1, <2>2, <2>3
<1>14. GroundedAs(d)
  BY <1>4, <1>13 DEF GroundedAs
<1>15. ASSUME PosedAs(c) PROVE PosedAs(d)'
  <2>1. d.old = {} /\ Alone(c.id) /\ (c.op = "accepting" => Unmet(c.id))
    BY <1>3, <1>13, <1>15 DEF PosedAs
  <2>2. d.op = "accepting" => Alone(d.req)' /\ Unmet(d.req)' /\ Gone(d.req)' /\ d.of \in Ends(d.req)'
    <3>1. Ends(c.id)' = Ends(c.id)
      BY <1>3 DEF Ends
    <3> QED
      BY <1>4, <1>5, <1>10, <1>11, <1>12, <1>13, <2>1, <3>1
  <2> QED
    BY <1>13, <2>1, <2>2 DEF PosedAs
<1>16. ASSUME NEW r \in Used, PosedAs(c), Clean(r), Agreed(r), Ends(r) \cap Ends(c.id) # {}
       PROVE  Agreed(r)'
  <2>1. party[r][1] \in Peer /\ party[r][2] \in Peer
    BY <1>4, EndsAre
  <2>2. r \in On => r = c.id
    BY <1>3, <1>16 DEF PosedAs, Alone
  <2>3. r # c.id => r \notin open /\ r \notin live
    BY <2>2 DEF On
  <2>4. r \notin open' /\ (r \in live' => sess'[party[r][1]] = r /\ sess'[party[r][2]] = r)
    BY <1>3, <1>16, <2>3 DEF Agreed
  <2>5. from'[party[r][1]] # r /\ to'[party[r][2]] # r
    <3>1. r # c.id => from[party[r][1]] # r /\ to[party[r][2]] # r
      BY <1>16, <2>3 DEF Agreed
    <3> QED
      BY <1>6, <1>7, <2>1, <3>1
  <2> QED
    BY <1>3, <2>4, <2>5 DEF Agreed
<1>17. \A r : ~MiddleAs(c, r)
  BY <1>3 DEF MiddleAs
<1>18. d.at # "done" => d.op # "none" /\ d.me = c.me /\ GroundedAs(d)
  BY <1>13, <1>14
<1>19. On' \subseteq Used /\ \A s \in d.old : s \in c.old \/ Ends(s) \subseteq mixed'
  BY <1>7, <1>13
<1>20. \A r \in Used : /\ PosedAs(c) /\ Clean(r) /\ Clean(r)'
                       /\ MiddleAs(c, r) \/ (Agreed(r) /\ Ends(r) \cap Ends(c.id) # {})
                       /\ r \in On => Alone(r)
                       => Agreed(r)' \/ (d.at # "done" /\ MiddleAs(d, r))
  BY <1>16, <1>17
<1>21. PICK F : F = Ends(c.id)
  OBVIOUS
<1>22. PICK x : x = None
  OBVIOUS
<1>23. PosedAs(c) => On' \subseteq On \/ (On' \subseteq On \cup {x} /\ Alone(x))
  BY <1>7
<1> HIDE DEF KeysInv
<1>24. F \subseteq Footprint(h) /\ Within(F) /\ party' = party
  BY <1>3, <1>8, <1>21
<1>25. \A r \in Used : /\ PosedAs(c) /\ Clean(r) /\ Clean(r)'
                       /\ MiddleAs(c, r) \/ (Agreed(r) /\ Ends(r) \cap F # {})
                       /\ r \in On => Alone(r)
                       => Agreed(r)' \/ (d.at # "done" /\ MiddleAs(d, r))
  BY <1>20, <1>21
<1>26. Go(h, d) /\ c.op # "none"
  BY <1>3, <1>4
<1> QED
  BY <1>1, <1>9, <1>15, <1>18, <1>19, <1>23, <1>24, <1>25, <1>26, StepKeeps

\* Ending a session that is alone takes away nobody else's pointers; those an
\* acceptance ends are of mixed peers.
LEMMA DeleteSessionKeepsKeys ==
    ASSUME Inv, KeysInv, NEW h \in Handler, DeleteSession(h) PROVE KeysInv'
<1>1. PICK c : c = cmd[h]
  OBVIOUS
<1>2. c.at = "kill" /\ UNCHANGED <<from, to, open, party>>
  BY <1>1 DEF DeleteSession
<1>3. /\ Sound(c, party, accepted, blocks) /\ c \in Commands /\ Placed(c) /\ c.op # "none"
      /\ Pointers /\ Tables /\ GroundedAs(c)
  BY <1>1, <1>2, HandlerSound DEF Sound, Placed, KeysInv, Grounded
<1>4. /\ On \subseteq Used /\ None \notin live /\ None \notin Used
  BY <1>3, EndsAre DEF On
<1>5. \A r : ~MiddleAs(c, r)
  BY <1>2 DEF MiddleAs
<1>6. Rooted'
  BY <1>2 DEF KeysInv, Rooted
<1>7. CASE c.op = "accepting" /\ c.old = {}
  <2>1. PICK d : d = To(c, "save")
    OBVIOUS
  <2>2. Go(h, d) /\ UNCHANGED <<from, to, sess, open, live, party>>
    BY <1>1, <1>2, <1>7, <2>1 DEF DeleteSession
  <2>3. /\ d.me = c.me /\ d.old = c.old /\ d.op = c.op /\ d.id = c.id /\ d.req = c.req /\ d.at = "save"
    BY <1>3, <2>1 DEF Commands, To
  <2>4. GroundedAs(d)
    BY <1>3, <2>3 DEF GroundedAs
  <2>5. mixed \subseteq mixed'
    BY <2>2, MixedIs DEF Go, Become
  <2>6. ASSUME PosedAs(c) PROVE PosedAs(d)'
    <3>1. c.key = "sess"
      BY <1>2, <1>3, <1>7 DEF Sound, Founded
    <3>2. Alone(c.req) /\ Unmet(c.req) /\ Gone(c.req)
      BY <1>2, <1>7, <2>6, <3>1 DEF PosedAs
    <3>3. Alone(d.req)' /\ Unmet(d.req)' /\ Gone(d.req)'
      BY <2>2, <2>3, <2>5, <3>2, Quiet
    <3> QED
      BY <1>7, <2>3, <3>3 DEF PosedAs
  <2> QED
    BY <1>1, <1>3, <1>5, <2>2, <2>3, <2>4, <2>6, QuietKeeps
<1>8. CASE c.op = "accepting" /\ c.old # {}
  <2>1. PICK s \in c.old : /\ sess' = Erase(sess, Ends(s)) /\ live' = live \ {s}
                           /\ Go(h, [c EXCEPT !.old = @ \ {s}])
    BY <1>1, <1>8 DEF DeleteSession
  <2>2. PICK d : d = [c EXCEPT !.old = @ \ {s}]
    OBVIOUS
  <2>3. /\ d.me = c.me /\ d.old = c.old \ {s} /\ d.op = c.op /\ d.id = c.id /\ d.req = c.req
        /\ d.at = "kill"
    BY <1>2, <1>3, <2>2 DEF Commands
  <2>4. GroundedAs(d)
    BY <1>3, <2>3 DEF GroundedAs
  <2>5. ~PosedAs(c)
    BY <1>8 DEF PosedAs
  <2>6. PICK F : F = Ends(s)
    OBVIOUS
  <2>7. F \subseteq Footprint(h)
    BY <1>1, <2>6 DEF Footprint
  <2>8. Within(F)
    BY <1>2, <2>1, <2>6 DEF Within, Erase
  <2>9. Go(h, d) /\ party' = party /\ On' \subseteq Used
    BY <1>2, <1>4, <2>1, <2>2 DEF On
  <2>10. PICK x : x = None
    OBVIOUS
  <2> HIDE DEF KeysInv
  <2> QED
    BY <1>1, <1>3, <1>6, <2>3, <2>4, <2>5, <2>7, <2>8, <2>9, StepKeeps
<1>9. CASE c.op # "accepting"
  <2>1. PICK d : d = IF c.op = "block" THEN EndNext(c) ELSE To(c, "done")
    OBVIOUS
  <2>2. sess' = Erase(sess, Ends(c.id)) /\ live' = live \ {c.id} /\ Go(h, d)
    BY <1>1, <1>9, <2>1 DEF DeleteSession
  <2>3. c.id \in Used
    <3>1. Known(c.id, party)
      BY <1>2, <1>3, <1>9 DEF Sound, Founded
    <3> QED
      BY <1>3, <3>1, EndsAre
  <2>4. /\ d.me = c.me /\ d.old = c.old /\ d.op = c.op /\ d.id = c.id /\ d.req = c.req
        /\ d.at \in {"done", "pointer"}
    <3>1. CASE c.op = "block"
      BY <1>3, <2>1, <3>1 DEF EndNext, Lookup, To, Commands
    <3>2. CASE c.op # "block"
      BY <1>3, <2>1, <3>2 DEF To, Commands
    <3> QED
      BY <3>1, <3>2
  <2>5. GroundedAs(d)
    BY <1>3, <2>4 DEF GroundedAs
  <2>6. PICK F : F = Ends(c.id)
    OBVIOUS
  <2>7. F \subseteq Footprint(h) /\ \A r \in Used : Ends(r) \subseteq Peer
    BY <1>1, <1>3, <2>3, <2>6, ScopeIs, EndsAre DEF Footprint, Ends
  <2>8. \A p \in Peer : sess'[p] = IF p \in F THEN None ELSE sess[p]
    BY <2>2, <2>6 DEF Erase
  <2>9. Within(F)
    BY <1>2, <2>2, <2>6, <2>8 DEF Within
  <2>10. On' \subseteq On
    BY <1>2, <2>2 DEF On
  <2>11. ASSUME PosedAs(c) PROVE PosedAs(d)'
    <3>1. d.old = {}
      BY <2>4, <2>11 DEF PosedAs
    <3> QED
      BY <1>9, <2>4, <3>1 DEF PosedAs
  <2>12. ASSUME NEW r \in Used, PosedAs(c), Clean(r), Agreed(r), Ends(r) \cap F # {}
         PROVE  Agreed(r)'
    <3>1. /\ party[r][1] \in Peer /\ party[r][2] \in Peer /\ r # None
          /\ party[r][1] \in Ends(r) /\ party[r][2] \in Ends(r)
      BY <1>3, <1>4, EndsAre
    <3>2. r \in On => r = c.id
      BY <1>2, <1>9, <2>6, <2>12 DEF PosedAs, Alone
    <3>3. r \notin live'
      BY <2>2, <3>2 DEF On
    <3>4. (from'[party[r][1]] = r <=> r \in open') /\ (to'[party[r][2]] = r <=> r \in open')
      BY <1>2, <2>12 DEF Agreed
    <3>5. r \in open => Unmet(r)'
      <4> SUFFICES ASSUME r \in open PROVE Unmet(r)'
        OBVIOUS
      <4>1. r = c.id
        BY <3>2 DEF On
      <4>2. sess'[party[r][1]] = None /\ sess'[party[r][2]] = None /\ None \notin live'
        BY <1>4, <2>2, <2>6, <2>8, <3>1, <4>1
      <4> QED
        BY <1>2, <3>3, <4>2 DEF Unmet
    <3> QED
      BY <1>2, <3>3, <3>4, <3>5 DEF Agreed
  <2>13. PICK x : x = None
    OBVIOUS
  <2>14. PosedAs(c) => On' \subseteq On \/ (On' \subseteq On \cup {x} /\ Alone(x))
    BY <2>10
  <2>15. \A r \in Used : /\ PosedAs(c) /\ Clean(r) /\ Clean(r)'
                         /\ MiddleAs(c, r) \/ (Agreed(r) /\ Ends(r) \cap F # {})
                         /\ r \in On => Alone(r)
                         => Agreed(r)' \/ (d.at # "done" /\ MiddleAs(d, r))
    BY <1>5, <2>12
  <2>16. On' \subseteq Used /\ party' = party /\ Go(h, d)
    BY <1>2, <1>4, <2>2, <2>10
  <2>17. d.at # "done" => d.op # "none" /\ d.me = c.me /\ GroundedAs(d)
    BY <1>3, <2>4, <2>5
  <2>18. \A s \in d.old : s \in c.old \/ Ends(s) \subseteq mixed'
    BY <2>4
  <2>19. c.op # "none" /\ F \subseteq Footprint(h)
    BY <1>3, <2>7
  <2> HIDE DEF KeysInv
  <2> QED
    BY <1>1, <1>6, <2>9, <2>11, <2>14, <2>15, <2>16, <2>17, <2>18, <2>19, StepKeeps
<1> QED
  BY <1>7, <1>8, <1>9

\* Asking whether a block stands between the two.
LEMMA CheckBlockedKeepsKeys ==
    ASSUME Inv, KeysInv, NEW h \in Handler, CheckBlocked(h) PROVE KeysInv'
<1>1. PICK c : c = cmd[h]
  OBVIOUS
<1>2. c.at = "blocked" /\ UNCHANGED <<from, to, sess, open, live, party>>
  BY <1>1 DEF CheckBlocked, keys
<1>3. /\ c \in Commands /\ c.op \in {"at", "accept"} /\ GroundedAs(c)
  BY <1>1, <1>2, HandlerSound DEF Sound, Placed, KeysInv, Grounded
<1>4. \A r : ~MiddleAs(c, r)
  BY <1>2 DEF MiddleAs
<1>5. \E d : /\ Go(h, d) /\ d.me = c.me /\ d.old = c.old
             /\ d.op \in {"at", "accept", "accepting"} /\ d.id \in {c.id, None} /\ d.req = c.req
             /\ d.at \in {"done", "check", "delete", "pointer"}
             /\ d.at = "delete" => d.op = "accept" /\ d.id = c.id /\ c.op = "accept"
             /\ d.op = "accepting" => d.at = "pointer" /\ d.key = "in"
  <2>1. CASE c.op = "at"
    <3>1. PICK d : d = To(c, IF BlockedEitherWay(c.me, c.with) THEN "done" ELSE "check")
      OBVIOUS
    <3>2. Go(h, d)
      BY <1>1, <2>1, <3>1 DEF CheckBlocked
    <3>3. /\ d.me = c.me /\ d.old = c.old /\ d.op = "at" /\ d.id = c.id /\ d.req = c.req
          /\ d.at \in {"done", "check"}
      BY <1>3, <2>1, <3>1 DEF To, Commands
    <3> QED
      BY <3>2, <3>3
  <2>2. CASE c.op = "accept" /\ BlockedEitherWay(c.me, party[c.id][1])
    <3>1. PICK d : d = To(c, "delete")
      OBVIOUS
    <3>2. Go(h, d)
      BY <1>1, <2>2, <3>1 DEF CheckBlocked
    <3>3. /\ d.me = c.me /\ d.old = c.old /\ d.op = "accept" /\ d.id = c.id /\ d.req = c.req
          /\ d.at = "delete"
      BY <1>3, <2>2, <3>1 DEF To, Commands
    <3> QED
      BY <2>2, <3>2, <3>3
  <2>3. CASE c.op = "accept" /\ ~BlockedEitherWay(c.me, party[c.id][1])
    <3>1. PICK e : e = [c EXCEPT !.op = "accepting", !.id = None]
      OBVIOUS
    <3>2. PICK d : d = Lookup(e, "in", c.me)
      OBVIOUS
    <3>3. Go(h, d)
      BY <1>1, <2>3, <3>1, <3>2 DEF CheckBlocked
    <3>4. /\ e.me = c.me /\ e.old = c.old /\ e.op = "accepting" /\ e.id = None /\ e.req = c.req
          /\ e \in Commands
      BY <1>3, <3>1 DEF Commands, Ops
    <3>5. /\ d.me = e.me /\ d.old = e.old /\ d.op = "accepting" /\ d.id = None /\ d.req = e.req
          /\ d.at = "pointer" /\ d.key = "in"
      BY <3>2, <3>4 DEF Lookup, Commands
    <3> QED
      BY <3>3, <3>4, <3>5
  <2> QED
    BY <1>3, <2>1, <2>2, <2>3
<1>6. PICK d : /\ Go(h, d) /\ d.me = c.me /\ d.old = c.old
               /\ d.op \in {"at", "accept", "accepting"} /\ d.id \in {c.id, None} /\ d.req = c.req
               /\ d.at \in {"done", "check", "delete", "pointer"}
               /\ d.at = "delete" => d.op = "accept" /\ d.id = c.id /\ c.op = "accept"
               /\ d.op = "accepting" => d.at = "pointer" /\ d.key = "in"
  BY <1>5
<1>7. GroundedAs(d)
  <2>1. {d.id, d.req} \subseteq Used \cup {None} /\ d.old \subseteq Used
    BY <1>3, <1>6 DEF GroundedAs
  <2> QED
    BY <1>6, <2>1 DEF GroundedAs
<1>8. ASSUME PosedAs(c) PROVE PosedAs(d)'
  <2>1. d.old = {} /\ (c.op = "accept" => Alone(c.id))
    BY <1>2, <1>6, <1>8 DEF PosedAs
  <2>2. mixed \subseteq mixed'
    BY <1>6, MixedIs DEF Go, Become
  <2>3. d.at = "delete" => Alone(d.id)'
    BY <1>2, <1>6, <2>1, <2>2, Quiet
  <2> QED
    BY <1>6, <2>1, <2>3 DEF PosedAs
<1>9. c.op # "none" /\ d.op # "none"
  BY <1>3, <1>6
<1> HIDE DEF KeysInv
<1> QED
  BY <1>1, <1>2, <1>4, <1>6, <1>7, <1>8, <1>9, QuietKeeps

\* Writing one half of a block.
LEMMA AddBlockKeepsKeys ==
    ASSUME Inv, KeysInv, NEW h \in Handler, AddBlock(h) PROVE KeysInv'
<1>1. PICK c : c = cmd[h]
  OBVIOUS
<1>2. PICK d : d = Lookup(c, "sess", c.me)
  OBVIOUS
<1>3. c.at = "sadd" /\ Go(h, d) /\ UNCHANGED <<from, to, sess, open, live, party>>
  BY <1>1, <1>2 DEF AddBlock, keys
<1>4. /\ c \in Commands /\ c.op = "block" /\ GroundedAs(c)
  BY <1>1, <1>3, HandlerSound DEF Sound, Placed, KeysInv, Grounded
<1>5. /\ d.me = c.me /\ d.old = c.old /\ d.op = "block" /\ d.id = c.id /\ d.req = c.req /\ d.at = "pointer"
  BY <1>2, <1>4 DEF Lookup, Commands
<1>6. GroundedAs(d)
  BY <1>4, <1>5 DEF GroundedAs
<1>7. PosedAs(c) => PosedAs(d)'
  <2>1. PosedAs(c) => d.old = {}
    BY <1>5 DEF PosedAs
  <2> QED
    BY <1>5, <2>1 DEF PosedAs
<1>8. \A r : ~MiddleAs(c, r)
  BY <1>3 DEF MiddleAs
<1>9. c.op # "none" /\ d.op # "none"
  BY <1>4, <1>5
<1> HIDE DEF KeysInv
<1> QED
  BY <1>1, <1>3, <1>5, <1>6, <1>7, <1>8, <1>9, QuietKeeps

\* SET NX: the pointer was free, so it was nobody's else.
LEMMA SetFromKeepsKeys ==
    ASSUME Inv, KeysInv, NEW h \in Handler, SetFrom(h) PROVE KeysInv'
<1>1. PICK c : c = cmd[h]
  OBVIOUS
<1>2. c.at = "from" /\ UNCHANGED <<to, sess, open, live, party>>
  BY <1>1 DEF SetFrom
<1>3. /\ c \in Commands /\ c.op = "at" /\ GroundedAs(c) /\ c.me \in Peer /\ c.with \in Peer
      /\ Pointers /\ Tables
  BY <1>1, <1>2, HandlerSound DEF Sound, Placed, Creation, KeysInv, Grounded
<1>4. c.id \in Used /\ party[c.id] = <<c.me, c.with>> /\ c.id # None /\ On \subseteq Used
  BY <1>2, <1>3, EndsAre DEF GroundedAs, On
<1>5. party[c.id][1] = c.me /\ party[c.id][2] = c.with
  BY <1>4
<1>6. \A r : ~MiddleAs(c, r)
  BY <1>2 DEF MiddleAs
<1>7. CASE from[c.me] # None
  <2>1. PICK d : d = To(c, "done")
    OBVIOUS
  <2>2. Go(h, d) /\ UNCHANGED <<from, to, sess, open, live, party>>
    BY <1>1, <1>2, <1>7, <2>1 DEF SetFrom
  <2>3. d.at = "done" /\ d.old = c.old
    BY <1>3, <2>1 DEF To, Commands
  <2>4. c.op # "none"
    BY <1>3
  <2> HIDE DEF KeysInv
  <2> QED
    BY <1>1, <1>6, <2>2, <2>3, <2>4, QuietKeeps
<1>8. CASE from[c.me] = None
  <2>1. PICK d : d = To(c, "to")
    OBVIOUS
  <2>2. Go(h, d) /\ from' = [from EXCEPT ![c.me] = c.id]
    BY <1>1, <1>8, <2>1 DEF SetFrom
  <2>3. /\ d.me = c.me /\ d.with = c.with /\ d.old = c.old /\ d.op = "at" /\ d.id = c.id /\ d.req = c.req
        /\ d.at = "to"
    BY <1>3, <2>1 DEF To, Commands
  <2>4. GroundedAs(d)
    BY <1>3, <1>4, <2>3 DEF GroundedAs
  <2>5. \A p \in Peer : from'[p] = IF p = c.me THEN c.id ELSE from[p]
    BY <1>3, <2>2 DEF Pointers
  <2>6. Rooted'
    BY <1>2, <1>5, <2>5 DEF KeysInv, Rooted
  <2>7. PICK F : F = {c.me}
    OBVIOUS
  <2>8. F \subseteq Footprint(h) /\ Within(F)
    <3>1. c.me \in Scope(c)
      BY <1>3, ScopeIs, Distinct
    <3>2. Within(F)
      BY <1>2, <2>5, <2>7 DEF Within
    <3> QED
      BY <1>1, <2>7, <3>1, <3>2 DEF Footprint
  <2>9. mixed \subseteq mixed' /\ On' = On
    BY <1>2, <2>2, MixedIs DEF Go, Become, On
  <2>10. ASSUME PosedAs(c) PROVE PosedAs(d)'
    <3>1. d.old = {} /\ Alone(c.id) /\ Unmet(c.id) /\ c.id \notin open /\ Gone(c.id)
      BY <1>2, <1>3, <2>3, <2>10 DEF PosedAs
    <3>2. Alone(c.id)'
      BY <1>2, <1>3, <1>4, <2>9, <3>1, AloneStays
    <3>3. Unmet(c.id)' /\ c.id \notin open'
      BY <1>2, <3>1 DEF Unmet
    <3>4. from'[d.me] = d.id /\ to'[d.with] # d.id
      BY <1>2, <1>3, <1>5, <2>3, <2>5, <3>1 DEF Gone
    <3> QED
      BY <2>3, <3>1, <3>2, <3>3, <3>4 DEF PosedAs
  <2>11. ASSUME NEW r \in Used, Agreed(r), r # c.id PROVE Agreed(r)'
    <3>1. /\ party[r][1] \in Peer /\ party[r][2] \in Peer /\ r # None
      BY <1>3, EndsAre
    <3>2. (r \in open => Unmet(r)') /\ (r \in live => sess'[party[r][1]] = r /\ sess'[party[r][2]] = r)
      BY <1>2, <2>11 DEF Agreed, Unmet
    <3>3. (from'[party[r][1]] = r <=> r \in open) /\ (to'[party[r][2]] = r <=> r \in open)
      BY <1>2, <1>8, <2>5, <2>11, <3>1 DEF Agreed
    <3> QED
      BY <1>2, <3>2, <3>3 DEF Agreed
  <2>12. PICK x : x = None
    OBVIOUS
  <2>13. PosedAs(c) => On' \subseteq On \/ (On' \subseteq On \cup {x} /\ Alone(x))
    BY <2>9
  <2>14. \A r \in Used : /\ PosedAs(c) /\ Clean(r) /\ Clean(r)'
                         /\ MiddleAs(c, r) \/ (Agreed(r) /\ Ends(r) \cap F # {})
                         /\ r \in On => Alone(r)
                         => Agreed(r)' \/ (d.at # "done" /\ MiddleAs(d, r))
    <3>1. MiddleAs(d, c.id) /\ d.at # "done"
      BY <2>3 DEF MiddleAs
    <3> QED
      BY <1>6, <2>11, <3>1
  <2>15. On' \subseteq Used /\ party' = party /\ c.op # "none"
    BY <1>2, <1>3, <1>4, <2>9
  <2>16. d.at # "done" => d.op # "none" /\ d.me = c.me /\ GroundedAs(d)
    BY <2>3, <2>4
  <2>17. \A s \in d.old : s \in c.old \/ Ends(s) \subseteq mixed'
    BY <2>3
  <2> HIDE DEF KeysInv
  <2> QED
    BY <1>1, <2>2, <2>6, <2>8, <2>10, <2>13, <2>14, <2>15, <2>16, <2>17, StepKeeps
<1> QED
  BY <1>7, <1>8

\* Writing the key of who is asked.
LEMMA SetToKeepsKeys ==
    ASSUME Inv, KeysInv, NEW h \in Handler, SetTo(h) PROVE KeysInv'
<1>1. PICK c : c = cmd[h]
  OBVIOUS
<1>2. c.at = "to" /\ UNCHANGED <<from, sess, open, live, party>>
  BY <1>1 DEF SetTo
<1>3. /\ c \in Commands /\ c.op = "at" /\ GroundedAs(c) /\ c.me \in Peer /\ c.with \in Peer
      /\ Pointers /\ Tables
  BY <1>1, <1>2, HandlerSound DEF Sound, Placed, Creation, KeysInv, Grounded
<1>4. c.id \in Used /\ party[c.id] = <<c.me, c.with>> /\ c.id # None /\ On \subseteq Used
  BY <1>2, <1>3, EndsAre DEF GroundedAs, On
<1>5. party[c.id][1] = c.me /\ party[c.id][2] = c.with
  BY <1>4
<1>6. \A r : MiddleAs(c, r) <=> r = c.id
  BY <1>2, <1>3 DEF MiddleAs
<1>7. PICK d : d = To(c, IF to[c.with] = None THEN "request" ELSE "undo")
  OBVIOUS
<1>8. Go(h, d)
  BY <1>1, <1>7 DEF SetTo
<1>9. /\ d.me = c.me /\ d.with = c.with /\ d.old = c.old /\ d.op = "at" /\ d.id = c.id /\ d.req = c.req
      /\ d.at = IF to[c.with] = None THEN "request" ELSE "undo"
  BY <1>3, <1>7 DEF To, Commands
<1>10. \A p \in Peer : to'[p] = IF p = c.with /\ to[p] = None THEN c.id ELSE to[p]
  BY <1>1, <1>3 DEF Pointers, SetTo
<1>11. GroundedAs(d)
  BY <1>3, <1>4, <1>9 DEF GroundedAs
<1>12. Rooted'
  BY <1>2, <1>5, <1>10 DEF KeysInv, Rooted
<1>13. PICK F : F = {c.with}
  OBVIOUS
<1>14. F \subseteq Footprint(h) /\ Within(F)
  <2>1. c.with \in Scope(c)
    BY <1>3, ScopeIs, Distinct
  <2>2. Within(F)
    BY <1>2, <1>10, <1>13 DEF Within
  <2> QED
    BY <1>1, <1>13, <2>1, <2>2 DEF Footprint
<1>15. mixed \subseteq mixed' /\ On' = On
  BY <1>2, <1>8, MixedIs DEF Go, Become, On
<1>16. ASSUME PosedAs(c) PROVE PosedAs(d)'
  <2>1. /\ d.old = {} /\ Alone(c.id) /\ Unmet(c.id) /\ c.id \notin open
        /\ (Clean(c.id) => from[c.me] = c.id) /\ to[c.with] # c.id
    BY <1>2, <1>3, <1>9, <1>16 DEF PosedAs
  <2>2. Alone(c.id)'
    BY <1>2, <1>3, <1>4, <1>15, <2>1, AloneStays
  <2>3. Unmet(c.id)' /\ c.id \notin open'
    BY <1>2, <2>1 DEF Unmet
  <2>4. Clean(c.id)' => Clean(c.id)
    BY <1>2, <1>15 DEF Clean, Ends, Used
  <2>5. Clean(d.id)' => from'[d.me] = d.id
    BY <1>2, <1>9, <2>1, <2>4
  <2>6. /\ d.at = "undo" => to'[d.with] # d.id
        /\ d.at = "request" => to'[d.with] = d.id
    BY <1>3, <1>9, <1>10, <2>1
  <2> QED
    BY <1>9, <2>1, <2>2, <2>3, <2>5, <2>6 DEF PosedAs
<1>17. ASSUME NEW r \in Used, Agreed(r), r # c.id PROVE Agreed(r)'
  <2>1. /\ party[r][1] \in Peer /\ party[r][2] \in Peer /\ r # None
    BY <1>3, EndsAre
  <2>2. (r \in open => Unmet(r)') /\ (r \in live => sess'[party[r][1]] = r /\ sess'[party[r][2]] = r)
    BY <1>2, <1>17 DEF Agreed, Unmet
  <2>3. (from'[party[r][1]] = r <=> r \in open) /\ (to'[party[r][2]] = r <=> r \in open)
    BY <1>2, <1>10, <1>17, <2>1 DEF Agreed
  <2> QED
    BY <1>2, <2>2, <2>3 DEF Agreed
<1>18. PICK x : x = None
  OBVIOUS
<1>19. PosedAs(c) => On' \subseteq On \/ (On' \subseteq On \cup {x} /\ Alone(x))
  BY <1>15
<1>20. \A r \in Used : /\ PosedAs(c) /\ Clean(r) /\ Clean(r)'
                       /\ MiddleAs(c, r) \/ (Agreed(r) /\ Ends(r) \cap F # {})
                       /\ r \in On => Alone(r)
                       => Agreed(r)' \/ (d.at # "done" /\ MiddleAs(d, r))
  <2>1. MiddleAs(d, c.id) /\ d.at # "done"
    BY <1>9 DEF MiddleAs
  <2> QED
    BY <1>6, <1>17, <2>1
<1>21. On' \subseteq Used /\ party' = party /\ c.op # "none"
  BY <1>2, <1>3, <1>4, <1>15
<1>22. d.at # "done" => d.op # "none" /\ d.me = c.me /\ GroundedAs(d)
  BY <1>9, <1>11
<1>23. \A s \in d.old : s \in c.old \/ Ends(s) \subseteq mixed'
  BY <1>9
<1> HIDE DEF KeysInv
<1> QED
  BY <1>1, <1>8, <1>12, <1>14, <1>16, <1>19, <1>20, <1>21, <1>22, <1>23, StepKeeps

\* The attempt is taken back, and with it nobody else's.
LEMMA UndoFromKeepsKeys ==
    ASSUME Inv, KeysInv, NEW h \in Handler, UndoFrom(h) PROVE KeysInv'
<1>1. PICK c : c = cmd[h]
  OBVIOUS
<1>2. PICK d : d = To(c, "done")
  OBVIOUS
<1>3. /\ c.at = "undo" /\ UNCHANGED <<to, sess, open, live, party>> /\ Go(h, d)
      /\ from' = Erase(from, {c.me})
  BY <1>1, <1>2 DEF UndoFrom
<1>4. /\ c \in Commands /\ c.op = "at" /\ GroundedAs(c) /\ c.me \in Peer /\ c.with \in Peer
      /\ Pointers /\ Tables
  BY <1>1, <1>3, HandlerSound DEF Sound, Placed, Creation, KeysInv, Grounded
<1>5. /\ c.id \in Used /\ party[c.id][1] = c.me /\ party[c.id][2] = c.with /\ c.id # None
      /\ On \subseteq Used
  BY <1>3, <1>4, EndsAre DEF GroundedAs, On
<1>6. \A r : MiddleAs(c, r) <=> r = c.id
  BY <1>3, <1>4 DEF MiddleAs
<1>7. d.at = "done" /\ d.old = c.old
  BY <1>2, <1>4 DEF To, Commands
<1>8. \A p \in Peer : from'[p] = IF p = c.me THEN None ELSE from[p]
  BY <1>3 DEF Erase
<1>9. Rooted'
  BY <1>3, <1>8 DEF KeysInv, Rooted
<1>10. PICK F : F = {c.me}
  OBVIOUS
<1>11. F \subseteq Footprint(h) /\ Within(F)
  <2>1. c.me \in Scope(c)
    BY <1>4, ScopeIs, Distinct
  <2>2. Within(F)
    BY <1>3, <1>8, <1>10 DEF Within
  <2> QED
    BY <1>1, <1>10, <2>1, <2>2 DEF Footprint
<1>12. On' = On
  BY <1>3 DEF On
<1>13. ASSUME NEW r \in Used, PosedAs(c), Clean(r), MiddleAs(c, r) \/ (Agreed(r) /\ Ends(r) \cap F # {})
       PROVE  Agreed(r)'
  <2>1. /\ party[r][1] \in Peer /\ party[r][2] \in Peer /\ r # None
    BY <1>4, EndsAre
  <2>2. /\ Alone(c.id) /\ Unmet(c.id) /\ c.id \notin open /\ to[c.with] # c.id
    BY <1>3, <1>4, <1>13 DEF PosedAs
  <2>3. CASE r = c.id
    BY <1>3, <1>4, <1>5, <1>8, <2>2, <2>3 DEF Agreed, Unmet
  <2>4. CASE r # c.id
    <3>1. Agreed(r) /\ c.me \in Ends(r) /\ c.me \in Ends(c.id)
      BY <1>5, <1>6, <1>10, <1>13, <2>4 DEF Ends
    <3>2. r \notin open /\ r \notin live
      BY <1>13, <2>2, <2>4, <3>1 DEF Alone, On
    <3>3. from[party[r][1]] # r /\ to[party[r][2]] # r
      BY <3>1, <3>2 DEF Agreed
    <3>4. from'[party[r][1]] # r /\ to'[party[r][2]] # r
      BY <1>3, <1>8, <2>1, <3>3
    <3> QED
      BY <1>3, <3>2, <3>4 DEF Agreed
  <2> QED
    BY <2>3, <2>4
<1>14. PICK x : x = None
  OBVIOUS
<1>15. PosedAs(c) => On' \subseteq On \/ (On' \subseteq On \cup {x} /\ Alone(x))
  BY <1>12
<1>16. On' \subseteq Used /\ party' = party /\ c.op # "none" /\ Go(h, d)
  BY <1>3, <1>4, <1>5, <1>12
<1>17. \A s \in d.old : s \in c.old \/ Ends(s) \subseteq mixed'
  BY <1>7
<1> HIDE DEF KeysInv
<1> QED
  BY <1>1, <1>7, <1>9, <1>11, <1>13, <1>15, <1>16, <1>17, StepKeeps

\* A request that shares a peer with one that is alone has no key.
LEMMA Bare ==
    ASSUME NEW x, Alone(x), NEW r, Clean(r), r # x, Agreed(r), Ends(r) \cap Ends(x) # {}
    PROVE  r \notin open /\ r \notin live /\ from[party[r][1]] # r /\ to[party[r][2]] # r
<1>1. r \notin On
  BY DEF Alone
<1> QED
  BY <1>1 DEF On, Agreed

\* Writing the row of a request, when its two keys are there.
LEMMA SaveRequestKeepsKeys ==
    ASSUME Inv, KeysInv, NEW h \in Handler, SaveRequest(h) PROVE KeysInv'
<1>1. PICK c : c = cmd[h]
  OBVIOUS
<1>2. PICK d : d = To(c, "done")
  OBVIOUS
<1>3. /\ c.at = "request" /\ UNCHANGED <<from, to, sess, live, party>> /\ Go(h, d)
      /\ open' = open \cup {c.id}
  BY <1>1, <1>2 DEF SaveRequest
<1>4. /\ c \in Commands /\ c.op = "at" /\ GroundedAs(c) /\ c.me \in Peer /\ c.with \in Peer
      /\ Pointers /\ Tables
  BY <1>1, <1>3, HandlerSound DEF Sound, Placed, Creation, KeysInv, Grounded
<1>5. /\ c.id \in Used /\ party[c.id][1] = c.me /\ party[c.id][2] = c.with
      /\ On \subseteq Used
  BY <1>3, <1>4, EndsAre DEF GroundedAs, On
<1>6. \A r : MiddleAs(c, r) <=> r = c.id
  BY <1>3, <1>4 DEF MiddleAs
<1>7. d.at = "done" /\ d.old = c.old
  BY <1>2, <1>4 DEF To, Commands
<1>8. Rooted'
  BY <1>3 DEF KeysInv, Rooted
<1>9. PICK F : F = Ends(c.id)
  OBVIOUS
<1>10. F \subseteq Footprint(h) /\ Within(F)
  <2>1. Ends(c.id) \subseteq Scope(c)
    BY <1>4, <1>5, ScopeIs
  <2>2. Within(F)
    BY <1>3, <1>9 DEF Within
  <2> QED
    BY <1>1, <1>9, <2>1, <2>2 DEF Footprint
<1>11. On' \subseteq On \cup {c.id}
  BY <1>3 DEF On
<1>12. ASSUME NEW r \in Used, PosedAs(c), Clean(r), MiddleAs(c, r) \/ (Agreed(r) /\ Ends(r) \cap F # {})
       PROVE  Agreed(r)'
  <2>1. /\ Alone(c.id) /\ Unmet(c.id)
        /\ Clean(c.id) => from[c.me] = c.id /\ to[c.with] = c.id
    BY <1>3, <1>4, <1>12 DEF PosedAs
  <2>2. CASE r = c.id
    BY <1>3, <1>4, <1>5, <1>12, <2>1, <2>2 DEF Agreed, Unmet
  <2>3. CASE r # c.id
    <3>1. r \notin open /\ r \notin live /\ from[party[r][1]] # r /\ to[party[r][2]] # r
      BY <1>6, <1>9, <1>12, <2>1, <2>3, Bare
    <3> QED
      BY <1>3, <2>3, <3>1 DEF Agreed
  <2> QED
    BY <2>2, <2>3
<1>13. PosedAs(c) => On' \subseteq On \/ (On' \subseteq On \cup {c.id} /\ Alone(c.id))
  <2>1. PosedAs(c) => Alone(c.id)
    BY <1>3, <1>4 DEF PosedAs
  <2> QED
    BY <1>11, <2>1
<1>14. On' \subseteq Used /\ party' = party /\ c.op # "none" /\ Go(h, d)
  BY <1>3, <1>4, <1>5, <1>11
<1>15. \A s \in d.old : s \in c.old \/ Ends(s) \subseteq mixed'
  BY <1>7
<1> HIDE DEF KeysInv
<1> QED
  BY <1>1, <1>7, <1>8, <1>10, <1>12, <1>13, <1>14, <1>15, StepKeeps

\* A relay writes its session back with both pointers.
LEMMA TouchKeepsKeys ==
    ASSUME Inv, KeysInv, NEW h \in Handler, Touch(h) PROVE KeysInv'
<1>1. PICK c : c = cmd[h]
  OBVIOUS
<1>2. PICK d : d = To(c, "done")
  OBVIOUS
<1>3. /\ c.at = "touch" /\ UNCHANGED <<from, to, open, party>> /\ Go(h, d)
      /\ live' = live \cup {c.id}
      /\ sess' = [p \in Peer |-> IF p \in Ends(c.id) THEN c.id ELSE sess[p]]
  BY <1>1, <1>2 DEF Touch
<1>4. /\ c \in Commands /\ c.op # "none" /\ Pointers /\ Tables /\ c.id \in accepted
  BY <1>1, <1>3, HandlerSound DEF Sound, Placed, Founded
<1>5. c.id \in Used /\ On \subseteq Used
  BY <1>4, EndsAre, HandlerSound
<1>6. \A r : ~MiddleAs(c, r)
  BY <1>3 DEF MiddleAs
<1>7. d.at = "done" /\ d.old = c.old
  BY <1>2, <1>4 DEF To, Commands
<1>8. Rooted'
  BY <1>3 DEF KeysInv, Rooted
<1>9. PICK F : F = Ends(c.id)
  OBVIOUS
<1>10. F \subseteq Footprint(h) /\ Within(F)
  <2>1. Ends(c.id) \subseteq Scope(c)
    BY <1>4, <1>5, ScopeIs
  <2>2. Within(F)
    BY <1>3, <1>9 DEF Within
  <2> QED
    BY <1>1, <1>9, <2>1, <2>2 DEF Footprint
<1>11. On' \subseteq On \cup {c.id}
  BY <1>3 DEF On
<1>12. ASSUME NEW r \in Used, PosedAs(c), Clean(r), Agreed(r), Ends(r) \cap F # {}
       PROVE  Agreed(r)'
  <2>1. /\ Alone(c.id) /\ (Clean(c.id) => c.id \notin open)
    BY <1>3, <1>4, <1>12 DEF PosedAs
  <2>2. /\ party[r][1] \in Peer /\ party[r][2] \in Peer
        /\ party[r][1] \in Ends(r) /\ party[r][2] \in Ends(r)
    BY <1>4, EndsAre
  <2>3. CASE r = c.id
    BY <1>3, <1>12, <2>1, <2>2, <2>3 DEF Agreed
  <2>4. CASE r # c.id
    <3>1. r \notin open /\ r \notin live /\ from[party[r][1]] # r /\ to[party[r][2]] # r
      BY <1>9, <1>12, <2>1, <2>4, Bare
    <3> QED
      BY <1>3, <2>4, <3>1 DEF Agreed
  <2> QED
    BY <2>3, <2>4
<1>13. PosedAs(c) => On' \subseteq On \/ (On' \subseteq On \cup {c.id} /\ Alone(c.id))
  <2>1. PosedAs(c) => Alone(c.id)
    BY <1>3 DEF PosedAs
  <2> QED
    BY <1>11, <2>1
<1>14. On' \subseteq Used /\ party' = party /\ Go(h, d)
  BY <1>3, <1>5, <1>11
<1>15. \A s \in d.old : s \in c.old \/ Ends(s) \subseteq mixed'
  BY <1>7
<1>16. \A r \in Used : /\ PosedAs(c) /\ Clean(r) /\ Clean(r)'
                       /\ MiddleAs(c, r) \/ (Agreed(r) /\ Ends(r) \cap F # {})
                       /\ r \in On => Alone(r)
                       => Agreed(r)' \/ (d.at # "done" /\ MiddleAs(d, r))
  BY <1>6, <1>12
<1> HIDE DEF KeysInv
<1> QED
  BY <1>1, <1>4, <1>7, <1>8, <1>10, <1>13, <1>14, <1>15, <1>16, StepKeeps

\* The row of a new session, then its pointers.
LEMMA SaveSessionKeepsKeys ==
    ASSUME Inv, KeysInv, NEW h \in Handler, SaveSession(h) PROVE KeysInv'
<1>1. PICK c : c = cmd[h]
  OBVIOUS
<1>2. PICK d : d = To(c, "first")
  OBVIOUS
<1>3. /\ c.at = "save" /\ UNCHANGED <<from, to, sess, open, party>> /\ Go(h, d)
      /\ live' = live \cup {c.req}
  BY <1>1, <1>2 DEF SaveSession
<1>4. /\ c \in Commands /\ c.op = "accepting" /\ Pointers /\ Tables /\ c.req \in accepted /\ GroundedAs(c)
  BY <1>1, <1>3, HandlerSound DEF Sound, Placed, Founded, KeysInv, Grounded
<1>5. c.req \in Used /\ On \subseteq Used
  BY <1>4, EndsAre, HandlerSound
<1>6. \A r : ~MiddleAs(c, r)
  BY <1>3 DEF MiddleAs
<1>7. /\ d.me = c.me /\ d.old = c.old /\ d.op = "accepting" /\ d.id = c.id /\ d.req = c.req
      /\ d.at = "first"
  BY <1>2, <1>4 DEF To, Commands
<1>8. Rooted'
  BY <1>3 DEF KeysInv, Rooted
<1>9. PICK F : F = Ends(c.req)
  OBVIOUS
<1>10. F \subseteq Footprint(h) /\ Within(F)
  <2>1. Ends(c.req) \subseteq Scope(c)
    BY <1>4, <1>5, ScopeIs
  <2>2. Within(F)
    BY <1>3, <1>9 DEF Within
  <2> QED
    BY <1>1, <1>9, <2>1, <2>2 DEF Footprint
<1>11. On' \subseteq On \cup {c.req} /\ mixed \subseteq mixed'
  BY <1>3, MixedIs DEF On, Go, Become
<1>12. PosedAs(c) => Alone(c.req) /\ Gone(c.req)
  BY <1>3, <1>4 DEF PosedAs
<1>13. ASSUME NEW r \in Used, PosedAs(c), Clean(r), Agreed(r), Ends(r) \cap F # {}, r # c.req
       PROVE  Agreed(r)'
  <2>1. r \notin open /\ r \notin live /\ from[party[r][1]] # r /\ to[party[r][2]] # r
    BY <1>9, <1>12, <1>13, Bare
  <2> QED
    BY <1>3, <1>13, <2>1 DEF Agreed
<1>14. On' \subseteq Used /\ party' = party /\ Go(h, d) /\ c.op # "none"
  BY <1>3, <1>4, <1>5, <1>11
<1>x. PICK x : x = c.req
  OBVIOUS
<1>15. PosedAs(c) => On' \subseteq On \/ (On' \subseteq On \cup {x} /\ Alone(x))
  BY <1>11, <1>12, <1>x
<1>16. ASSUME PosedAs(c) PROVE PosedAs(d)'
  <2>1. d.old = {}
    BY <1>7, <1>16 DEF PosedAs
  <2>2. Alone(d.req)'
    BY <1>4, <1>7, <1>11, <1>12, <1>14, <1>16, AloneStays
  <2>3. Gone(d.req)'
    BY <1>3, <1>7, <1>12, <1>16 DEF Gone
  <2> QED
    BY <1>7, <2>1, <2>2, <2>3 DEF PosedAs
<1>17. \A s \in d.old : s \in c.old \/ Ends(s) \subseteq mixed'
  BY <1>7
<1>18. d.at # "done" => d.op # "none" /\ d.me = c.me /\ GroundedAs(d)
  BY <1>4, <1>7 DEF GroundedAs
<1>19. \A r \in Used : /\ PosedAs(c) /\ Clean(r) /\ Clean(r)'
                       /\ MiddleAs(c, r) \/ (Agreed(r) /\ Ends(r) \cap F # {})
                       /\ r \in On => Alone(r)
                       => Agreed(r)' \/ (d.at # "done" /\ MiddleAs(d, r))
  <2>1. MiddleAs(d, c.req) /\ d.at # "done"
    BY <1>7 DEF MiddleAs
  <2> QED
    BY <1>6, <1>13, <2>1
<1> HIDE DEF KeysInv
<1> QED
  BY <1>1, <1>8, <1>10, <1>14, <1>15, <1>16, <1>17, <1>18, <1>19, StepKeeps

\* Writing the key of a session, of the one peer and then of the other.
LEMMA SetPointerKeepsKeys ==
    ASSUME Inv, KeysInv, NEW h \in Handler, SetPointer(h) PROVE KeysInv'
<1>1. PICK c : c = cmd[h]
  OBVIOUS
<1>2. c.at \in {"first", "second"} /\ UNCHANGED <<from, to, open, live, party>>
  BY <1>1 DEF SetPointer
<1>3. PICK p : p = IF c.at = "first" THEN party[c.req][1] ELSE party[c.req][2]
  OBVIOUS
<1>4. PICK d : d = To(c, IF c.at = "first" THEN "second" ELSE "done")
  OBVIOUS
<1>5. sess' = [sess EXCEPT ![p] = c.req] /\ Go(h, d)
  BY <1>1, <1>3, <1>4 DEF SetPointer
<1>6. /\ c \in Commands /\ c.op = "accepting" /\ Pointers /\ Tables /\ c.req \in accepted /\ GroundedAs(c)
  BY <1>1, <1>2, HandlerSound DEF Sound, Placed, Founded, KeysInv, Grounded
<1>7. c.req \in Used /\ On \subseteq Used /\ p \in Peer /\ p \in Ends(c.req)
      /\ party[c.req][1] \in Peer /\ party[c.req][2] \in Peer
  BY <1>3, <1>6, EndsAre, HandlerSound
<1>8. \A r : MiddleAs(c, r) <=> r = c.req
  BY <1>2, <1>6 DEF MiddleAs
<1>9. /\ d.me = c.me /\ d.old = c.old /\ d.op = "accepting" /\ d.id = c.id /\ d.req = c.req
      /\ d.at = IF c.at = "first" THEN "second" ELSE "done"
  BY <1>4, <1>6 DEF To, Commands
<1>10. Rooted'
  BY <1>2 DEF KeysInv, Rooted
<1>11. \A q \in Peer : sess'[q] = IF q = p THEN c.req ELSE sess[q]
  BY <1>5, <1>6 DEF Pointers
<1>12. PICK F : F = {p}
  OBVIOUS
<1>13. F \subseteq Footprint(h) /\ Within(F)
  <2>1. Ends(c.req) \subseteq Scope(c)
    BY <1>6, <1>7, ScopeIs
  <2>2. Within(F)
    BY <1>2, <1>11, <1>12 DEF Within
  <2> QED
    BY <1>1, <1>7, <1>12, <2>1, <2>2 DEF Footprint
<1>14. On' = On /\ mixed \subseteq mixed'
  BY <1>2, <1>5, MixedIs DEF On, Go, Become
<1>15. PosedAs(c) => /\ Alone(c.req) /\ Gone(c.req)
                     /\ c.at = "second" /\ c.req \in live => sess[party[c.req][1]] = c.req
  BY <1>2, <1>6 DEF PosedAs
<1>16. ASSUME NEW r \in Used, PosedAs(c), Clean(r), Agreed(r), Ends(r) \cap F # {}, r # c.req
       PROVE  Agreed(r)'
  <2>1. Ends(r) \cap Ends(c.req) # {}
    BY <1>7, <1>12, <1>16
  <2>2. r \notin open /\ r \notin live /\ from[party[r][1]] # r /\ to[party[r][2]] # r
    BY <1>15, <1>16, <2>1, Bare
  <2> QED
    BY <1>2, <1>16, <2>2 DEF Agreed
<1>17. ASSUME PosedAs(c), c.at = "second" PROVE Agreed(c.req)'
  <2>1. /\ c.req \notin open /\ from[party[c.req][1]] # c.req /\ to[party[c.req][2]] # c.req
    BY <1>15, <1>17 DEF Gone
  <2>2. c.req \in live => sess'[party[c.req][1]] = c.req /\ sess'[party[c.req][2]] = c.req
    BY <1>3, <1>7, <1>11, <1>15, <1>17
  <2> QED
    BY <1>2, <2>1, <2>2 DEF Agreed
<1>18. ASSUME PosedAs(c), d.at # "done" PROVE PosedAs(d)'
  <2>1. d.old = {} /\ d.at = "second" /\ p = party[c.req][1]
    BY <1>3, <1>9, <1>18 DEF PosedAs
  <2>2. Alone(d.req)'
    BY <1>2, <1>6, <1>7, <1>9, <1>14, <1>15, <1>18, AloneStays
  <2>3. Gone(d.req)' /\ sess'[party'[d.req][1]] = d.req
    BY <1>2, <1>7, <1>9, <1>11, <1>15, <1>18, <2>1 DEF Gone
  <2> QED
    BY <1>9, <2>1, <2>2, <2>3 DEF PosedAs
<1>19. \A s \in d.old : s \in c.old \/ Ends(s) \subseteq mixed'
  BY <1>9
<1>20. d.at # "done" => d.op # "none" /\ d.me = c.me /\ GroundedAs(d)
  BY <1>6, <1>9 DEF GroundedAs
<1>21. \A r \in Used : /\ PosedAs(c) /\ Clean(r) /\ Clean(r)'
                       /\ MiddleAs(c, r) \/ (Agreed(r) /\ Ends(r) \cap F # {})
                       /\ r \in On => Alone(r)
                       => Agreed(r)' \/ (d.at # "done" /\ MiddleAs(d, r))
  <2>1. c.at = "first" => MiddleAs(d, c.req) /\ d.at # "done"
    BY <1>9 DEF MiddleAs
  <2> QED
    BY <1>2, <1>8, <1>16, <1>17, <2>1
<1>22. PICK x : x = None
  OBVIOUS
<1>23. PosedAs(c) => On' \subseteq On \/ (On' \subseteq On \cup {x} /\ Alone(x))
  BY <1>14
<1>24. On' \subseteq Used /\ party' = party /\ c.op # "none" /\ Go(h, d)
  BY <1>2, <1>5, <1>6, <1>7, <1>14
<1> HIDE DEF KeysInv
<1> QED
  BY <1>1, <1>10, <1>13, <1>18, <1>19, <1>20, <1>21, <1>23, <1>24, StepKeeps

\* Peers with nothing under way are those of no request of clean peers.
LEMMA CheckFreeKeepsKeys ==
    ASSUME Inv, KeysInv, NEW h \in Handler, CheckFree(h) PROVE KeysInv'
<1>1. PICK c : c = cmd[h]
  OBVIOUS
<1>2. c.at = "check" /\ UNCHANGED <<from, to, sess, open, live>>
  BY <1>1 DEF CheckFree, keys
<1>3. /\ c \in Commands /\ c.op = "at" /\ GroundedAs(c) /\ c.me \in Peer /\ c.with \in Peer
      /\ Pointers /\ Tables
  BY <1>1, <1>2, HandlerSound DEF Sound, Placed, Creation, KeysInv, Grounded
<1>4. \A x : ~MiddleAs(c, x)
  BY <1>2 DEF MiddleAs
<1>5. CASE PeerBusy(c.me) \/ PeerBusy(c.with)
  <2>1. PICK d : d = To(c, "done")
    OBVIOUS
  <2>2. Go(h, d) /\ UNCHANGED <<from, to, sess, open, live, party>>
    BY <1>1, <1>2, <1>5, <2>1 DEF CheckFree
  <2>3. d.at = "done" /\ d.old = c.old
    BY <1>3, <2>1 DEF To, Commands
  <2>4. c.op # "none"
    BY <1>3
  <2> HIDE DEF KeysInv
  <2> QED
    BY <1>1, <1>4, <2>2, <2>3, <2>4, QuietKeeps
<1>6. CASE ~(PeerBusy(c.me) \/ PeerBusy(c.with))
  <2>1. PICK r \in Id : /\ r \notin Used
                        /\ party' = [party EXCEPT ![r] = <<c.me, c.with>>]
                        /\ Go(h, To([c EXCEPT !.id = r], "from"))
    BY <1>1, <1>6 DEF CheckFree
  <2>2. PICK d : d = To([c EXCEPT !.id = r], "from")
    OBVIOUS
  <2>3. /\ d.me = c.me /\ d.with = c.with /\ d.of = c.of /\ d.old = c.old /\ d.op = "at" /\ d.id = r
        /\ d.req = c.req /\ d.at = "from"
    BY <1>3, <2>1, <2>2 DEF To, Commands
  <2>4. /\ cmd' = [cmd EXCEPT ![h] = d] /\ mixed' = Mixed(cmd', Fading) /\ cmd \in [Handler -> Commands]
    BY <2>1, <2>2, <2>3 DEF Go, Become, Inv, Handlers
  <2>5. cmd'[h] = d /\ \A g \in Handler : g # h => cmd'[g] = cmd[g]
    BY <2>4
  <2>6. /\ party'[r] = <<c.me, c.with>> /\ \A s \in Id : s # r => party'[s] = party[s]
        /\ party'[r][1] = c.me /\ party'[r][2] = c.with
    BY <1>3, <2>1 DEF Tables
  <2>7. /\ Used' = Used \cup {r} /\ r \notin Used
        /\ \A s \in Used : s \in Id /\ s # r /\ Ends(s)' = Ends(s)
        /\ Ends(r)' = {c.me, c.with}
    <3>1. party'[r] # None
      <4>1. <<c.me, c.with>> \in Peer \X Peer
        BY <1>3
      <4> QED
        BY <2>6, <4>1, Distinct
    <3>2. Used' = Used \cup {r}
      BY <2>1, <2>6, <3>1 DEF Used
    <3>3. \A s \in Used : s \in Id /\ s # r
      BY <2>1 DEF Used
    <3>4. \A s \in Used : Ends(s)' = Ends(s)
      BY <2>6, <3>3 DEF Ends
    <3> QED
      BY <2>1, <2>6, <3>2, <3>3, <3>4 DEF Ends
  <2>8. mixed \subseteq mixed'
    BY <2>4, MixedIs
  <2>9. On' = On /\ On \subseteq Used /\ None \notin On /\ None \notin Used /\ r # None
    BY <1>2, <1>3, <2>1, EndsAre, Distinct DEF On
  <2>10. \A g \in Handler : Scope(cmd[g])' = Scope(cmd'[g])
    <3>1. Scope(cmd[h])' = Scope(d)
      <4>1. {d.id, d.req} \cap Used' = ({d.id, d.req} \cap Used) \cup {r}
        BY <2>3, <2>7
      <4>2. {c.me, c.with} \subseteq {d.me, d.with, d.of} \ {None}
        BY <1>3, <2>3, Distinct
      <4>3. \A x : (\E s \in {d.id, d.req} \cap Used' : x \in Ends(s)')
                      <=> (\E s \in {d.id, d.req} \cap Used : x \in Ends(s)) \/ x \in {c.me, c.with}
        BY <2>7, <4>1
      <4>4. Scope(cmd[h])' = ({d.me, d.with, d.of} \ {None}) \cup UNION {Ends(s)' : s \in {d.id, d.req} \cap Used'}
        BY <2>3, <2>5 DEF Scope
      <4>5. Scope(d) = ({d.me, d.with, d.of} \ {None}) \cup UNION {Ends(s) : s \in {d.id, d.req} \cap Used}
        BY <2>3 DEF Scope
      <4> QED
        BY <4>2, <4>3, <4>4, <4>5
    <3>2. ASSUME NEW g \in Handler, g # h PROVE Scope(cmd[g])' = Scope(cmd[g])
      <4>1. PICK e : e = cmd[g]
        OBVIOUS
      <4>2. {e.id, e.req} \cap Used' = {e.id, e.req} \cap Used
        BY <2>7, <2>9, <4>1 DEF KeysInv, Grounded, GroundedAs
      <4>3. UNION {Ends(s)' : s \in {e.id, e.req} \cap Used'} = UNION {Ends(s) : s \in {e.id, e.req} \cap Used}
        BY <2>7, <4>2
      <4>4. cmd'[g] = e
        BY <2>5, <3>2, <4>1
      <4> QED
        BY <4>1, <4>3, <4>4 DEF Scope
    <3> QED
      BY <2>5, <3>1, <3>2
  <2>11. Moves(h, {})
    <3>1. Within({})
      BY <1>2 DEF Within
    <3>2. Grows
      BY <2>6, <2>7, <2>8, <2>9 DEF Grows
    <3>3. \A g \in Handler : g # h => Alike(cmd[g], cmd'[g])
      BY <2>5 DEF Alike
    <3> QED
      BY <2>4, <2>10, <3>1, <3>2, <3>3 DEF Moves
  <2>12. Rooted'
    <3> SUFFICES ASSUME NEW p \in Peer
                 PROVE  /\ from[p] # None => party'[from[p]][1] = p
                        /\ to[p] # None => party'[to[p]][2] = p
      BY <1>2 DEF Rooted
    <3>1. /\ from[p] # None => from[p] \in Used
          /\ to[p] # None => to[p] \in Used
      BY <1>3, EndsAre DEF Pointers
    <3> QED
      BY <2>6, <2>7, <3>1 DEF KeysInv, Rooted
  <2>13. GroundedAs(cmd[h])'
    <3>1. {d.id, d.req} \subseteq Used' \cup {None} /\ d.old \subseteq Used' /\ d.id \in Used'
      BY <1>3, <2>3, <2>7 DEF GroundedAs
    <3> QED
      BY <2>3, <2>5, <2>6, <3>1 DEF GroundedAs
  <2>14. /\ from[c.me] = None /\ to[c.me] = None /\ sess[c.me] = None
         /\ from[c.with] = None /\ to[c.with] = None /\ sess[c.with] = None
    BY <1>6 DEF PeerBusy
  <2>15. r \notin open /\ r \notin live /\ Unmet(r)' /\ Gone(r)'
    <3>1. r \notin open /\ r \notin live /\ None \notin live
      BY <2>7, <2>9 DEF On
    <3> QED
      BY <1>2, <2>6, <2>9, <2>14, <3>1 DEF Unmet, Gone
  <2>16. Alone(r)'
    <3> SUFFICES ASSUME NEW s \in On, Clean(s)', Ends(s)' \cap Ends(r)' # {} PROVE FALSE
      BY <2>9 DEF Alone
    <3>1. s \in Used /\ s \in Id /\ s # None /\ Ends(s)' = Ends(s)
      BY <2>7, <2>9
    <3>2. PICK p : p \in Ends(s) /\ p \in {c.me, c.with} /\ p \notin mixed'
      BY <2>7, <3>1 DEF Clean
    <3>3. Clean(s) /\ ~Middle(h, s)
      BY <1>1, <1>4, <2>8, <3>1 DEF Clean, Middle
    <3>4. ASSUME NEW g \in Handler, g # h, Middle(g, s) PROVE FALSE
      <4>1. Ends(s) \subseteq Scope(cmd[g])
        BY <1>3, <3>1, <3>4, MiddleConcerns DEF KeysInv, Grounded
      <4>2. p \in Scope(cmd'[g])
        BY <2>5, <3>2, <3>4, <4>1
      <4>3. p \in Scope(cmd'[h])
        BY <1>3, <2>3, <2>5, <3>2, ScopeIs, Distinct
      <4>4. Scope(cmd'[g]) \cap Scope(cmd'[h]) # {}
        BY <4>2, <4>3
      <4>5. Scope(cmd'[g]) \cup Scope(cmd'[h]) \subseteq Mixed(cmd', Fading)
        BY <3>4, <4>4, MixedIs
      <4> QED
        BY <2>4, <3>2, <4>2, <4>5
    <3>8. ~Waning(s)
      <4>1. p \in Scope(cmd'[h])
        BY <1>3, <2>3, <2>5, <3>2, ScopeIs, Distinct
      <4>2. s \in Fading => Scope(cmd'[h]) \subseteq mixed'
        BY <2>4, <3>2, <4>1, MixedIs
      <4> QED
        BY <3>2, <4>1, <4>2 DEF Waning
    <3>5. Agreed(s)
      BY <3>1, <3>3, <3>4, <3>8 DEF KeysInv, Agreement
    <3>6. p = party[s][1] \/ p = party[s][2]
      BY <1>3, <3>2, EndsAre
    <3>7. from[p] = None /\ to[p] = None /\ sess[p] = None
      BY <2>14, <3>2
    <3> QED
      BY <3>1, <3>5, <3>6, <3>7 DEF Agreed, On
  <2>17. ASSUME Untainted(h)' PROVE Posed(h)'
    <3>1. Posed(h)
      <4>1. cmd[h].op # "none" /\ cmd[h].me \in Peer /\ cmd'[h].me = cmd[h].me
        BY <1>1, <1>3, <2>3, <2>5
      <4> HIDE DEF KeysInv
      <4> QED
        BY <2>11, <2>17, <4>1, StaysUntainted
    <3>2. d.old = {}
      BY <1>1, <2>3, <3>1 DEF Posed, PosedAs
    <3>3. PosedAs(d)'
      BY <1>2, <2>3, <2>15, <2>16, <3>2 DEF PosedAs
    <3> QED
      BY <2>5, <3>3 DEF Posed
  <2>18. Agreed(r)'
    BY <1>2, <2>6, <2>9, <2>14, <2>15 DEF Agreed
  <2>19. \A s \in Used' : Clean(s)' /\ (s \notin Used \/ Ends(s) \cap {} # {} \/ Middle(h, s)) => Right(s)'
    <3>1. \A s \in Used : ~Middle(h, s)
      BY <1>1, <1>4 DEF Middle
    <3>2. Right(r)'
      BY <2>7, <2>9, <2>18 DEF Right
    <3> QED
      BY <2>7, <3>1, <3>2
  <2>20. \A s \in cmd'[h].old : s \in cmd[h].old \/ Ends(s)' \subseteq mixed'
    BY <1>1, <2>3, <2>5
  <2> HIDE DEF KeysInv
  <2> QED
    BY <2>11, <2>12, <2>13, <2>17, <2>19, <2>20, MovesKeep
<1> QED
  BY <1>5, <1>6

\* A command begins with nothing found.
LEMMA BeginKeepsKeys ==
    ASSUME Inv, KeysInv, NEW h \in Handler, NEW c, Begin(h, c), c \in Commands, c.op \notin {"none", "accepting"},
           c.at \in {"pointer", "sadd"}, c.old = {}, c.id = None, c.req = None
    PROVE  KeysInv'
<1>1. PICK d : d = [c EXCEPT !.barred = barred]
  OBVIOUS
<1>2. /\ cmd' = [cmd EXCEPT ![h] = d] /\ mixed' = Mixed(cmd', Fading) /\ cmd \in [Handler -> Commands]
      /\ UNCHANGED <<from, to, sess, open, live, party>> /\ cmd[h].op = "none"
  BY <1>1 DEF Begin, Become, Busy, keys, Inv, Handlers
<1>3. /\ d.op = c.op /\ d.at = c.at /\ d.old = {} /\ d.id = None /\ d.req = None
  BY <1>1 DEF Commands
<1>4. cmd'[h] = d /\ \A g \in Handler : g # h => cmd'[g] = cmd[g]
  BY <1>2
<1>5. On' = On /\ On \subseteq Used /\ Used' = Used /\ mixed \subseteq mixed'
  BY <1>2, MixedIs, EndsAre DEF On, Used, Inv
<1>6. Moves(h, {})
  <2>1. Within({}) /\ Grows
    BY <1>2, <1>5 DEF Within, Grows
  <2>2. \A g \in Handler : g # h => Alike(cmd[g], cmd'[g])
    BY <1>4 DEF Alike
  <2>3. \A g \in Handler : Scope(cmd[g])' = Scope(cmd'[g])
    BY <1>2, ScopeSame
  <2> QED
    BY <1>2, <2>1, <2>2, <2>3 DEF Moves
<1>7. Rooted'
  BY <1>2 DEF KeysInv, Rooted
<1>8. GroundedAs(cmd[h])'
  BY <1>3, <1>4 DEF GroundedAs
<1>9. Posed(h)'
  <2>1. PosedAs(d)'
    BY <1>3 DEF PosedAs
  <2> QED
    BY <1>4, <2>1 DEF Posed
<1>10. \A s \in Used' : Clean(s)' /\ (s \notin Used \/ Ends(s) \cap {} # {} \/ Middle(h, s)) => Right(s)'
  <2>1. \A s : ~Middle(h, s)
    BY <1>2 DEF Middle, MiddleAs
  <2> QED
    BY <1>5, <2>1
<1>11. \A s \in cmd'[h].old : s \in cmd[h].old \/ Ends(s)' \subseteq mixed'
  BY <1>3, <1>4
<1> HIDE DEF KeysInv
<1> QED
  BY <1>6, <1>7, <1>8, <1>9, <1>10, <1>11, MovesKeep

\* A command begins.
LEMMA CommandsKeepKeys ==
    ASSUME Inv, KeysInv, NEW p \in Peer, NEW q \in Peer, NEW h \in Handler, NEW op,
           \/ At(p, q) \/ Block(h, p, q) \/ Cancel(p)
           \/ op \in {"accept", "reject"} /\ Answer(p, op)
           \/ op \in {"disconnect", "relay"} /\ InSession(p, op)
    PROVE  KeysInv'
<1>0. p \in Handler
  BY DEF Handler
<1>1. PICK n : n = Nothing
  OBVIOUS
<1>2. /\ n.at = "done" /\ n.old = {} /\ n.id = None /\ n.req = None
      /\ DOMAIN n = {"op", "at", "me", "with", "key", "of", "id", "req", "old", "barred"}
  BY <1>1 DEF Nothing
<1>3. \A o, w, key : LET c == Lookup(Command(o, p, w), key, p)
                     IN  c.op = o /\ c.at = "pointer" /\ c.old = {} /\ c.id = None /\ c.req = None
  <2> SUFFICES ASSUME NEW o, NEW w, NEW key, NEW c, c = Lookup(Command(o, p, w), key, p)
               PROVE  c.op = o /\ c.at = "pointer" /\ c.old = {} /\ c.id = None /\ c.req = None
    OBVIOUS
  <2>1. PICK e : e = [n EXCEPT !.op = o, !.me = p, !.with = w]
    OBVIOUS
  <2>2. /\ e.op = o /\ e.old = {} /\ e.id = None /\ e.req = None
        /\ DOMAIN e = {"op", "at", "me", "with", "key", "of", "id", "req", "old", "barred"}
    BY <1>2, <2>1
  <2>3. c = [e EXCEPT !.at = "pointer", !.key = key, !.of = p]
    BY <1>1, <2>1 DEF Lookup, Command
  <2> QED
    BY <2>2, <2>3
<1>4. LET c == To(Command("block", p, q), "sadd")
      IN  c.op = "block" /\ c.at = "sadd" /\ c.old = {} /\ c.id = None /\ c.req = None
  <2> SUFFICES ASSUME NEW c, c = To(Command("block", p, q), "sadd")
               PROVE  c.op = "block" /\ c.at = "sadd" /\ c.old = {} /\ c.id = None /\ c.req = None
    OBVIOUS
  <2>1. PICK e : e = [n EXCEPT !.op = "block", !.me = p, !.with = q]
    OBVIOUS
  <2>2. /\ e.op = "block" /\ e.old = {} /\ e.id = None /\ e.req = None
        /\ DOMAIN e = {"op", "at", "me", "with", "key", "of", "id", "req", "old", "barred"}
    BY <1>2, <2>1
  <2>3. c = [e EXCEPT !.at = "sadd"]
    BY <1>1, <2>1 DEF To, Command
  <2> QED
    BY <2>2, <2>3
<1>5. \E c : \E g \in Handler :
         /\ Begin(g, c) /\ c \in Commands /\ c.op \notin {"none", "accepting"} /\ c.at \in {"pointer", "sadd"}
         /\ c.old = {} /\ c.id = None /\ c.req = None
  <2>1. CASE At(p, q)
    <3>1. PICK c : c = Lookup(Command("at", p, q), "sess", p)
      OBVIOUS
    <3>2. Begin(p, c) /\ c \in Commands
      BY <2>1, <3>1, Beginnings DEF At, Sound
    <3>3. c.op = "at" /\ c.at = "pointer" /\ c.old = {} /\ c.id = None /\ c.req = None
      BY <1>3, <3>1
    <3> QED
      BY <1>0, <3>2, <3>3
  <2>2. CASE Block(h, p, q)
    <3>1. PICK c : c = To(Command("block", p, q), "sadd")
      OBVIOUS
    <3>2. Begin(h, c) /\ c \in Commands
      BY <2>2, <3>1, Beginnings DEF Block, Sound
    <3>3. c.op = "block" /\ c.at = "sadd" /\ c.old = {} /\ c.id = None /\ c.req = None
      BY <1>4, <3>1
    <3> QED
      BY <3>2, <3>3
  <2>3. CASE Cancel(p)
    <3>1. PICK c : c = Lookup(Command("cancel", p, None), "out", p)
      OBVIOUS
    <3>2. Begin(p, c) /\ c \in Commands
      BY <2>3, <3>1, Beginnings DEF Cancel, Sound
    <3>3. c.op = "cancel" /\ c.at = "pointer" /\ c.old = {} /\ c.id = None /\ c.req = None
      BY <1>3, <3>1
    <3> QED
      BY <1>0, <3>2, <3>3
  <2>4. CASE op \in {"accept", "reject"} /\ Answer(p, op)
    <3>1. PICK c : c = Lookup(Command(op, p, None), "in", p)
      OBVIOUS
    <3>2. Begin(p, c) /\ c \in Commands
      BY <2>4, <3>1, Beginnings DEF Answer, Sound
    <3>3. c.op = op /\ c.at = "pointer" /\ c.old = {} /\ c.id = None /\ c.req = None
      BY <1>3, <3>1
    <3> QED
      BY <1>0, <2>4, <3>2, <3>3
  <2>5. CASE op \in {"disconnect", "relay"} /\ InSession(p, op)
    <3>1. PICK c : c = Lookup(Command(op, p, None), "sess", p)
      OBVIOUS
    <3>2. Begin(p, c) /\ c \in Commands
      BY <2>5, <3>1, Beginnings DEF InSession, Sound
    <3>3. c.op = op /\ c.at = "pointer" /\ c.old = {} /\ c.id = None /\ c.req = None
      BY <1>3, <3>1
    <3> QED
      BY <1>0, <2>5, <3>2, <3>3
  <2> QED
    BY <2>1, <2>2, <2>3, <2>4, <2>5
<1> HIDE DEF KeysInv
<1> QED
  BY <1>5, BeginKeepsKeys

\* Lifting a block moves no key.
LEMMA UnblockKeepsKeys ==
    ASSUME Inv, KeysInv, NEW p \in Peer, NEW q \in Peer, Unblock(p, q) PROVE KeysInv'
<1>1. /\ cmd' = [h \in Handler |-> [cmd[h] EXCEPT !.barred = @ \ {<<p, q>>}]]
      /\ mixed' = Mixed(cmd', Fading) /\ UNCHANGED <<from, to, sess, open, live, party>>
  BY DEF Unblock, Become, keys
<1>2. \A g \in Handler : Alike(cmd[g], cmd'[g])
  <2> SUFFICES ASSUME NEW g \in Handler PROVE Alike(cmd[g], cmd'[g])
    OBVIOUS
  <2>1. PICK c : c = cmd[g]
    OBVIOUS
  <2>2. c \in Commands
    BY <2>1 DEF Inv, Handlers
  <2>3. cmd'[g] = [c EXCEPT !.barred = @ \ {<<p, q>>}]
    BY <1>1, <2>1
  <2> QED
    BY <2>1, <2>2, <2>3 DEF Alike, Commands
<1>3. On' = On /\ On \subseteq Used /\ Used' = Used /\ mixed \subseteq mixed'
  BY <1>1, MixedIs, EndsAre DEF On, Used, Inv
<1>4. PICK h \in Handler : h = p
  BY DEF Handler
<1>5. Within({}) /\ Grows
  BY <1>1, <1>3 DEF Within, Grows
<1>6. Moves(h, {})
  <2>1. \A g \in Handler : Scope(cmd[g])' = Scope(cmd'[g])
    BY <1>1, ScopeSame
  <2> QED
    BY <1>1, <1>2, <1>5, <2>1 DEF Moves
<1>7. Rooted'
  BY <1>1 DEF KeysInv, Rooted
<1>8. GroundedAs(cmd[h])'
  <2>1. GroundedAs(cmd[h])
    BY DEF KeysInv, Grounded
  <2> QED
    BY <1>1, <1>2, <1>3, <2>1 DEF GroundedAs, Alike
<1>9. ASSUME Untainted(h)' PROVE Posed(h)'
  <2>1. PICK c : c = cmd[h]
    OBVIOUS
  <2>2. PICK d : d = cmd'[h]
    OBVIOUS
  <2>3. Alike(c, d) /\ Scope(cmd[h])' = Scope(d)
    BY <1>1, <1>2, <2>1, <2>2, ScopeSame
  <2>4. Scope(d) = Scope(c)
    BY <2>3 DEF Scope, Alike
  <2>5. Untainted(h)
    BY <1>3, <1>9, <2>1, <2>3, <2>4 DEF Untainted
  <2>6. cmd[h].op # "none"
    BY <2>5, ScopeIs DEF Untainted
  <2>7. Posed(h) /\ GroundedAs(cmd[h])
    BY <2>5 DEF KeysInv, Grounded
  <2>8. Scope(cmd[h]) \cap {} = {}
    OBVIOUS
  <2> QED
    BY <1>2, <1>5, <2>6, <2>7, <2>8, PosedStays
<1>10. ASSUME NEW r \in Used', Clean(r)', r \notin Used \/ Ends(r) \cap {} # {} \/ Middle(h, r)
       PROVE  Right(r)'
  <2>1. Middle(h, r) /\ r \in Used /\ r \in Id
    BY <1>3, <1>10 DEF Used
  <2>2. Middle(h, r)'
    BY <1>2, <2>1 DEF Middle, MiddleAs, Alike
  <2>3. Clean(r) /\ (Alone(r) => Alone(r)')
    BY <1>1, <1>3, <1>10, Quiet
  <2>4. r \in On => Alone(r)
    BY <2>1, <2>3 DEF KeysInv, Agreement
  <2> QED
    BY <1>3, <2>2, <2>3, <2>4 DEF Right
<1>11. \A s \in cmd'[h].old : s \in cmd[h].old \/ Ends(s)' \subseteq mixed'
  BY <1>2 DEF Alike
<1> HIDE DEF KeysInv
<1> QED
  BY <1>6, <1>7, <1>8, <1>9, <1>10, <1>11, MovesKeep

\* Keys expire in an order that leaves the others agreeing; a request whose keys
\* are half gone is waning.
LEMMA ExpireKeepsKeys ==
    ASSUME Inv, KeysInv, NEW r \in Id, Expire(r) PROVE KeysInv'
<1>1. /\ UNCHANGED <<party, cmd>> /\ mixed \subseteq mixed'
      /\ <<from, to, open>>' # <<from, to, open>> =>
            \A h \in Handler : Scope(cmd[h]) \cap Ends(r) # {} => Scope(cmd[h]) \subseteq mixed'
      /\ Pointers /\ Tables /\ r # None
  <2>1. /\ mixed' = Mixed(cmd, {r}) \/ (mixed' = mixed /\ UNCHANGED <<from, to, open>>)
        /\ UNCHANGED <<party, cmd>>
    BY DEF Expire
  <2>2. Pointers /\ Tables /\ r # None
    BY Distinct DEF Inv
  <2>3. mixed \subseteq mixed'
    BY <2>1, MixedIs
  <2>4. CASE mixed' = Mixed(cmd, {r})
    <3>1. \A h \in Handler : Scope(cmd[h]) \cap Ends(r) # {} => Scope(cmd[h]) \subseteq mixed'
      BY <2>4, MixedIs
    <3> QED
      BY <2>1, <2>2, <2>3, <3>1
  <2>5. CASE UNCHANGED <<from, to, open>>
    BY <2>1, <2>2, <2>3, <2>5
  <2> QED
    BY <2>1, <2>4, <2>5
<1>2. \/ /\ \E p \in Peer : from[p] = r /\ from' = Erase(from, {p})
         /\ UNCHANGED <<to, sess, open, live>>
      \/ /\ \A p \in Peer : from[p] # r
         /\ \E p \in Peer : to[p] = r /\ to' = Erase(to, {p})
         /\ UNCHANGED <<from, sess, open, live>>
      \/ /\ \A p \in Peer : from[p] # r /\ to[p] # r
         /\ open' = open \ {r} /\ UNCHANGED <<from, to, sess, live>>
      \/ /\ live' = live \ {r} /\ UNCHANGED <<from, to, sess, open>>
      \/ /\ r \notin live
         /\ \E p \in Peer : sess[p] = r /\ sess' = Erase(sess, {p})
         /\ UNCHANGED <<from, to, open, live>>
  BY DEF Expire, ExpireRequest, ExpireSession
<1>3. \A p \in Peer : from'[p] = from[p] \/ (from'[p] = None /\ from[p] = r)
  <2> SUFFICES ASSUME NEW p \in Peer, from'[p] # from[p] PROVE from'[p] = None /\ from[p] = r
    OBVIOUS
  <2>1. PICK x \in Peer : from[x] = r /\ from' = Erase(from, {x})
    BY <1>2
  <2> QED
    BY <1>1, <2>1 DEF Erase, Pointers
<1>4. \A p \in Peer : to'[p] = to[p] \/ (to'[p] = None /\ to[p] = r /\ \A q \in Peer : from[q] # r)
  <2> SUFFICES ASSUME NEW p \in Peer, to'[p] # to[p]
               PROVE  to'[p] = None /\ to[p] = r /\ \A q \in Peer : from[q] # r
    OBVIOUS
  <2>1. PICK x \in Peer : to[x] = r /\ to' = Erase(to, {x}) /\ \A q \in Peer : from[q] # r
    BY <1>2
  <2> QED
    BY <1>1, <2>1 DEF Erase, Pointers
<1>5. \A p \in Peer : sess'[p] = sess[p] \/ (sess'[p] = None /\ sess[p] = r /\ r \notin live)
  <2> SUFFICES ASSUME NEW p \in Peer, sess'[p] # sess[p]
               PROVE  sess'[p] = None /\ sess[p] = r /\ r \notin live
    OBVIOUS
  <2>1. PICK x \in Peer : sess[x] = r /\ sess' = Erase(sess, {x}) /\ r \notin live
    BY <1>2
  <2> QED
    BY <1>1, <2>1 DEF Erase, Pointers
<1>6. /\ open' \subseteq open /\ live' \subseteq live
      /\ \A s \in live : s \in live' \/ s = r
      /\ \A s \in open : s \in open' \/ (s = r /\ \A q \in Peer : from[q] # r)
  BY <1>2
<1>7. /\ On' \subseteq On /\ On \subseteq Used /\ Used' = Used /\ None \notin live /\ None \notin Used
      /\ \A s : Ends(s)' = Ends(s)
      /\ \A s : Clean(s)' => Clean(s)
      /\ \A g \in Handler : Scope(cmd[g])' = Scope(cmd[g])
  <2>1. On' \subseteq On /\ On \subseteq Used /\ None \notin live /\ None \notin Used
    BY <1>1, <1>6, EndsAre DEF On
  <2>2. Used' = Used /\ \A s : Ends(s)' = Ends(s)
    BY <1>1, ScopeSame
  <2>3. \A s : Clean(s)' => Clean(s)
    BY <1>1, <2>2 DEF Clean
  <2> QED
    BY <1>1, <2>1, <2>2, <2>3, ScopeSame
<1>8. \A s \in Used : party[s][1] \in Peer /\ party[s][2] \in Peer
  BY <1>1, EndsAre
<1>9. \A s : Alone(s) => Alone(s)'
  BY <1>7 DEF Alone
<1>10. \A s \in Used : Unmet(s) => Unmet(s)'
  BY <1>1, <1>5, <1>6, <1>7, <1>8 DEF Unmet
<1>11. \A s \in Used : Gone(s) => Gone(s)'
  BY <1>1, <1>3, <1>4, <1>6, <1>7, <1>8 DEF Gone
<1>12. Rooted'
  BY <1>1, <1>3, <1>4 DEF KeysInv, Rooted
<1>13. Grounded' /\ Scopes' /\ Olds'
  <2>1. Grounded'
    BY <1>1, <1>7 DEF KeysInv, Grounded, GroundedAs
  <2>2. \A g, h \in Handler : g # h /\ Scope(cmd[g]) \cap Scope(cmd[h]) # {}
           => Scope(cmd[g]) \cup Scope(cmd[h]) \subseteq mixed'
    BY <1>1 DEF KeysInv, Scopes
  <2>3. Scopes'
    BY <1>7, <2>2 DEF Scopes
  <2>4. \A h \in Handler : Untainted(h)' => Untainted(h)
    BY <1>1, <1>7 DEF Untainted
  <2>5. \A g \in Handler : \A s \in cmd[g].old :
           /\ Ends(s) \subseteq mixed'
           /\ \A h \in Handler \ {g} : Untainted(h)' => Ends(s) \cap Scope(cmd[h]) = {}
    BY <1>1, <2>4 DEF KeysInv, Olds
  <2>6. Olds'
    BY <1>1, <1>7, <2>5 DEF Olds
  <2> QED
    BY <2>1, <2>3, <2>6
<1>20. /\ \A g \in Handler : Untainted(g)' => Scope(cmd[g]) \cap Ends(r) = {} \/ UNCHANGED <<from, to, open>>
       /\ Clean(r)' => (\A g \in Handler : Scope(cmd[g]) \cap Ends(r) = {}) \/ UNCHANGED <<from, to, open>>
  <2>1. \A g \in Handler : Untainted(g)' => ~(Scope(cmd[g]) \subseteq mixed')
    BY <1>7 DEF Untainted
  <2>2. Clean(r)' => Ends(r) \cap mixed' = {}
    BY <1>7 DEF Clean
  <2> QED
    BY <1>1, <2>1, <2>2
<1>21. \A x \in Used : /\ party[x][1] \in Peer /\ party[x][2] \in Peer /\ x # None
                       /\ party[x][1] \in Ends(x) /\ party[x][2] \in Ends(x)
  BY <1>1, EndsAre
\* A request that agreed or was waning, r itself or not, does so still.
<1>14. ASSUME NEW x \in Used, Clean(x)', Agreed(x) \/ Waning(x) PROVE Agreed(x)' \/ Waning(x)'
  <2>1. /\ Unmet(x) => Unmet(x)'
        /\ Agreed(x) => (x \in live' => sess'[party[x][1]] = x /\ sess'[party[x][2]] = x)
    BY <1>5, <1>6, <1>10, <1>21 DEF Agreed
  <2>2. CASE UNCHANGED <<from, to, open>> \/ x # r
    <3>1. /\ from'[party[x][1]] = x <=> from[party[x][1]] = x
          /\ to'[party[x][2]] = x <=> to[party[x][2]] = x
          /\ x \in open' <=> x \in open
      BY <1>3, <1>4, <1>6, <1>21, <2>2
    <3>2. Agreed(x) => Agreed(x)'
      BY <1>1, <2>1, <3>1 DEF Agreed
    <3>3. Waning(x) => Waning(x)'
      <4>1. x \in Fading => x \in Fading'
        BY <1>1, <1>7, <3>1 DEF Fading
      <4> QED
        BY <1>1, <1>7, <2>1, <3>1, <4>1 DEF Waning
    <3> QED
      BY <1>14, <3>2, <3>3
  <2>3. CASE x = r /\ ~(UNCHANGED <<from, to, open>>)
    <3>1. \A g \in Handler : (Scope(cmd[g]) \cap Ends(r))' = {}
      BY <1>1, <1>7, <1>14, <1>20, <2>3
    <3>2. /\ r \in open /\ Unmet(r) /\ r \notin live
      <4>1. Agreed(r) => r \in open
        <5> SUFFICES ASSUME Agreed(r), r \notin open PROVE FALSE
          OBVIOUS
        <5>1. from[party[r][1]] # r /\ to[party[r][2]] # r
          BY DEF Agreed
        <5>2. \A p \in Peer : from[p] # r /\ to[p] # r
          BY <1>1, <5>1 DEF KeysInv, Rooted
        <5> QED
          BY <1>2, <2>3, <5>2
      <4> QED
        BY <1>14, <2>3, <4>1 DEF Agreed, Waning, Unmet
    <3>3. Unmet(r)' /\ r \notin live'
      BY <1>6, <2>1, <2>3, <3>2
    <3>4. CASE r \in open'
      <4>1. from'[party[r][1]] # r
        <5>1. CASE from' = from
          <6>1. PICK p \in Peer : to[p] = r
            BY <1>2, <2>3, <3>4, <5>1
          <6>2. \A q \in Peer : from[q] # r
            BY <1>2, <2>3, <3>4, <5>1
          <6> QED
            BY <1>21, <2>3, <5>1, <6>2
        <5>2. CASE from' # from
          <6>1. PICK p \in Peer : from[p] = r /\ from' = Erase(from, {p})
            BY <1>2, <5>2
          <6>2. p = party[r][1]
            BY <1>1, <6>1 DEF KeysInv, Rooted
          <6> QED
            BY <1>1, <1>21, <2>3, <6>1, <6>2 DEF Erase
        <5> QED
          BY <5>1, <5>2
      <4>2. r \in Fading'
        BY <1>1, <1>7, <2>3, <3>4, <4>1 DEF Fading
      <4> QED
        BY <1>1, <2>3, <3>1, <3>3, <3>4, <4>1, <4>2 DEF Waning
    <3>5. CASE r \notin open'
      <4>1. UNCHANGED <<from, to>> /\ \A p \in Peer : from[p] # r /\ to[p] # r
        BY <1>2, <3>2, <3>5
      <4>2. from'[party[r][1]] # r /\ to'[party[r][2]] # r
        BY <1>21, <2>3, <4>1
      <4> QED
        BY <1>1, <2>3, <3>3, <3>5, <4>2 DEF Agreed
    <3> QED
      BY <3>4, <3>5
  <2> QED
    BY <2>2, <2>3
<1>15. Agreement'
  <2> SUFFICES ASSUME NEW x \in Id, Clean(x)'
               PROVE  /\ (\A h \in Handler : ~Middle(h, x)') => Agreed(x)' \/ Waning(x)'
                      /\ x \in On' => Alone(x)'
    BY DEF Agreement
  <2>1. Clean(x) /\ x \in Used
    BY <1>7 DEF Clean
  <2>2. \A h \in Handler : Middle(h, x)' <=> Middle(h, x)
    BY <1>1 DEF Middle, MiddleAs
  <2> QED
    BY <1>7, <1>9, <1>14, <2>1, <2>2 DEF KeysInv, Agreement
<1>16. ASSUME NEW h \in Handler, Untainted(h)' PROVE Posed(h)'
  <2>1. PICK c : c = cmd[h]
    OBVIOUS
  <2>2. PosedAs(c) /\ cmd'[h] = c /\ GroundedAs(c) /\ Sound(c, party, accepted, blocks)
    <3>1. Untainted(h)
      BY <1>1, <1>7, <1>16 DEF Untainted
    <3> QED
      BY <1>1, <2>1, <3>1, HandlerSound DEF KeysInv, Grounded, Posed
  <2>3. /\ c \in Commands
        /\ (c.at \in {"row", "delete"} => c.id \in Used)
        /\ c.op = "accepting" /\ c.at \in {"pointer", "row", "drop", "kill"} /\ c.key = "sess" => c.req \in Used
        /\ c.at \in {"save", "first", "second"} => c.req \in Used
        /\ c.op = "at" /\ c.at \in {"from", "to", "undo", "request"} =>
              /\ c.id \in Used /\ party[c.id] = <<c.me, c.with>> /\ c.me \in Peer /\ c.with \in Peer
    <3>1. accepted \subseteq Used
      BY <1>1, EndsAre, HandlerSound DEF Tables
    <3>2. \A x : Known(x, party) => x \in Used
      BY <1>1, EndsAre
    <3> QED
      BY <2>2, <3>1, <3>2 DEF Sound, Founded, Placed, Creation, Lookups, GroundedAs
  <2>4. c.at \in {"row", "drop"} =>
          /\ Pointer(c.key, c.of)' \in {c.id, None}
          /\ c.op = "accepting" /\ c.key = "sess" => c.id \notin live'
    <3> SUFFICES ASSUME c.at \in {"row", "drop"}
                 PROVE  /\ Pointer(c.key, c.of)' \in {c.id, None}
                        /\ c.op = "accepting" /\ c.key = "sess" => c.id \notin live'
      OBVIOUS
    <3>1. c.of \in Peer /\ c.key \in {"sess", "out", "in"} /\ Pointer(c.key, c.of) \in {c.id, None}
      BY <2>2, <2>3 DEF Sound, Placed, Lookups, Commands, PosedAs
    <3>2. Pointer(c.key, c.of)' \in {Pointer(c.key, c.of), None}
      BY <1>3, <1>4, <1>5, <3>1 DEF Pointer
    <3> QED
      BY <1>6, <2>2, <3>1, <3>2 DEF PosedAs
  <2>5. c.at = "drop" => c.id \notin Rows(c.key)'
    BY <1>6, <2>2 DEF PosedAs, Rows
  <2>6. \/ c.at = "delete"
        \/ c.at = "blocked" /\ c.op # "at"
        \/ c.at = "kill" /\ c.op # "accepting"
        => Alone(c.id)'
    BY <1>9, <2>2 DEF PosedAs
  <2>7. c.at = "touch" => Alone(c.id)' /\ (Clean(c.id)' => c.id \notin open')
    BY <1>6, <1>7, <1>9, <2>2 DEF PosedAs
  <2>8. c.op = "accepting" /\ c.at = "delete" => Unmet(c.id)'
    BY <1>10, <2>2, <2>3 DEF PosedAs
  <2>9. c.op = "accepting" /\ ((c.key = "sess" /\ c.at \in {"pointer", "row", "drop", "kill"}) \/ c.at = "save")
          => Alone(c.req)' /\ Unmet(c.req)' /\ Gone(c.req)'
    BY <1>9, <1>10, <1>11, <2>2, <2>3 DEF PosedAs
  <2>10. c.op = "accepting" /\ c.key = "sess" /\ c.at \in {"pointer", "row", "drop"} => c.of \in Ends(c.req)'
    BY <1>7, <2>2 DEF PosedAs
  <2>11. c.op = "accepting" /\ c.at \in {"first", "second"} =>
          /\ Alone(c.req)' /\ Gone(c.req)'
          /\ c.at = "second" /\ c.req \in live' => sess'[party'[c.req][1]] = c.req
    <3> SUFFICES ASSUME c.op = "accepting", c.at \in {"first", "second"}
                 PROVE  /\ Alone(c.req)' /\ Gone(c.req)'
                        /\ c.at = "second" /\ c.req \in live' => sess'[party'[c.req][1]] = c.req
      OBVIOUS
    <3>1. /\ Alone(c.req) /\ Gone(c.req) /\ c.req \in Used /\ party[c.req][1] \in Peer
          /\ c.at = "second" /\ c.req \in live => sess[party[c.req][1]] = c.req
      BY <1>8, <2>2, <2>3 DEF PosedAs
    <3> QED
      BY <1>1, <1>5, <1>6, <1>9, <1>11, <3>1
  <2>12. ASSUME c.op = "at", c.at \in {"from", "to", "undo", "request"}
         PROVE
          /\ Alone(c.id)' /\ Unmet(c.id)' /\ c.id \notin open'
          /\ c.at = "from" => Gone(c.id)'
          /\ c.at \in {"to", "undo"} => (Clean(c.id)' => from'[c.me] = c.id) /\ to'[c.with] # c.id
          /\ c.at = "request" => (Clean(c.id)' => from'[c.me] = c.id /\ to'[c.with] = c.id)
    <3>1. /\ c.id \in Used /\ c.me \in Peer /\ c.with \in Peer /\ c.me \in Ends(c.id) /\ c.id # None
      BY <1>7, <2>3, <2>12 DEF Ends
    <3>2. /\ Alone(c.id) /\ Unmet(c.id) /\ c.id \notin open
          /\ c.at = "from" => Gone(c.id)
          /\ c.at \in {"to", "undo"} => (Clean(c.id) => from[c.me] = c.id) /\ to[c.with] # c.id
          /\ c.at = "request" => (Clean(c.id) => from[c.me] = c.id /\ to[c.with] = c.id)
      BY <2>2, <2>12 DEF PosedAs
    <3>3. from[c.me] = c.id => from'[c.me] = c.id
      <4> SUFFICES ASSUME from[c.me] = c.id, from'[c.me] # c.id PROVE FALSE
        OBVIOUS
      <4>1. r = c.id /\ from' # from
        BY <1>3, <3>1
      <4>2. Scope(cmd[h]) \cap Ends(r) = {}
        BY <1>16, <1>20, <4>1
      <4>3. c.me \in Scope(cmd[h])
        BY <2>1, <2>12, <3>1, ScopeIs, Distinct
      <4> QED
        BY <3>1, <4>1, <4>2, <4>3
    <3>4. from[c.me] = c.id /\ to[c.with] = c.id => to'[c.with] = c.id
      BY <1>4, <3>1
    <3>5. to[c.with] # c.id => to'[c.with] # c.id
      BY <1>4, <3>1
    <3> QED
      BY <1>6, <1>7, <1>9, <1>10, <1>11, <3>1, <3>2, <3>3, <3>4, <3>5
  <2>13. PosedAs(c)'
    <3>1. c.old = {}
      BY <2>2 DEF PosedAs
    <3> QED
      BY <2>4, <2>5, <2>6, <2>7, <2>8, <2>9, <2>10, <2>11, <2>12, <3>1 DEF PosedAs
  <2> QED
    BY <2>2, <2>13 DEF Posed
<1> QED
  BY <1>12, <1>13, <1>15, <1>16 DEF KeysInv

\* Every step keeps the invariant.
LEMMA NextKeepsKeys ==
    ASSUME Inv, KeysInv, [Next]_vars PROVE KeysInv'
<1>1. CASE UNCHANGED vars
  <2>1. UNCHANGED <<from, to, sess, open, live, party, cmd, mixed>>
    BY <1>1 DEF vars, keys
  <2>2. (\A r : Ends(r)' = Ends(r)) /\ Used' = Used /\ On' = On
    BY <2>1 DEF Ends, Used, On
  <2>3. \A g \in Handler : Scope(cmd[g])' = Scope(cmd[g])
    BY <2>1, ScopeSame
  <2>4. Grounded' /\ Rooted' /\ Scopes' /\ Olds'
    BY <2>1, <2>2, <2>3 DEF KeysInv, Grounded, GroundedAs, Rooted, Scopes, Olds, Untainted
  <2>5. \A r : /\ Alone(r)' <=> Alone(r)
               /\ Unmet(r)' <=> Unmet(r)
               /\ Gone(r)' <=> Gone(r)
               /\ Agreed(r)' <=> Agreed(r)
               /\ Clean(r)' <=> Clean(r)
               /\ Waning(r)' <=> Waning(r)
    <3>1. Fading' = Fading
      BY <2>1, <2>2 DEF Fading
    <3> QED
      BY <2>1, <2>2, <2>3, <3>1 DEF Alone, Unmet, Gone, Agreed, Clean, Waning
  <2>6. Agreement'
    BY <2>1, <2>2, <2>5 DEF KeysInv, Agreement, Middle, MiddleAs
  <2>7. ASSUME NEW h \in Handler, Untainted(h)' PROVE Posed(h)'
    <3>1. PICK c : c = cmd[h]
      OBVIOUS
    <3>2. PosedAs(c) /\ cmd'[h] = c
      BY <2>1, <2>3, <2>7, <3>1 DEF KeysInv, Untainted, Posed
    <3>3. Pointer(c.key, c.of)' = Pointer(c.key, c.of) /\ Rows(c.key)' = Rows(c.key)
      BY <2>1 DEF Pointer, Rows
    <3>4. PosedAs(c)'
      BY <2>1, <2>2, <2>5, <3>2, <3>3 DEF PosedAs
    <3> QED
      BY <3>2, <3>4 DEF Posed
  <2> QED
    BY <2>4, <2>6, <2>7 DEF KeysInv
<1> HIDE DEF KeysInv
<1>2. ASSUME NEW h \in Handler, Step(h) PROVE KeysInv'
  BY <1>2, ReadPointerKeepsKeys, ReadRowKeepsKeys, DropPointerKeepsKeys, DeleteRequestKeepsKeys,
     DeleteSessionKeepsKeys, CheckBlockedKeepsKeys, CheckFreeKeepsKeys, SetFromKeepsKeys,
     SetToKeepsKeys, UndoFromKeepsKeys, SaveRequestKeepsKeys, SaveSessionKeepsKeys,
     SetPointerKeepsKeys, TouchKeepsKeys, AddBlockKeepsKeys DEF Step
<1>3. ASSUME NEW p \in Peer, NEW q \in Peer, At(p, q) \/ Unblock(p, q) PROVE KeysInv'
  <2>1. p \in Handler
    BY DEF Handler
  <2> QED
    BY <1>3, <2>1, CommandsKeepKeys, UnblockKeepsKeys
<1>4. ASSUME NEW p \in Peer, NEW q \in Peer, NEW h \in {p, Web}, Block(h, p, q) PROVE KeysInv'
  <2>1. h \in Handler
    BY DEF Handler
  <2> QED
    BY <1>4, <2>1, CommandsKeepKeys
<1>5. ASSUME NEW p \in Peer,
             \/ \E op \in {"accept", "reject"} : Answer(p, op)
             \/ \E op \in {"disconnect", "relay"} : InSession(p, op)
             \/ Cancel(p)
      PROVE  KeysInv'
  <2>1. p \in Handler
    BY DEF Handler
  <2> QED
    BY <1>5, <2>1, CommandsKeepKeys
<1>6. ASSUME NEW r \in Id, Expire(r) PROVE KeysInv'
  BY <1>6, ExpireKeepsKeys
<1> QED
  BY <1>1, <1>2, <1>3, <1>4, <1>5, <1>6 DEF Next

\* And it holds to begin with.
LEMMA InitKeys ==
    ASSUME Init PROVE KeysInv
<1>1. PICK p, q \in Peer, start \in {"nothing", "request", "session"} :
          LET set(is, S) == [x \in Peer |-> IF start = is /\ x \in S THEN 1 ELSE None]
          IN  /\ p # q
              /\ from = set("request", {p}) /\ to = set("request", {q})
              /\ sess = set("session", {p, q})
              /\ open = (IF start = "request" THEN {1} ELSE {})
              /\ live = (IF start = "session" THEN {1} ELSE {})
              /\ accepted = live
              /\ party = [r \in Id |-> IF r = 1 /\ start # "nothing" THEN <<p, q>> ELSE None]
  BY Zenon DEF Init
<1>2. cmd = [h \in Handler |-> Nothing]
  BY DEF Init
<1>3. \A h \in Handler : /\ cmd[h].op = "none" /\ cmd[h].old = {} /\ cmd[h].id = None /\ cmd[h].req = None
                         /\ cmd[h].at = "done" /\ Scope(cmd[h]) = {}
  <2>1. Nothing.op = "none" /\ Nothing.old = {} /\ Nothing.id = None /\ Nothing.req = None /\ Nothing.at = "done"
    BY DEF Nothing
  <2>2. Scope(Nothing) = {}
    BY <2>1, ScopeIs
  <2> QED
    BY <1>2, <2>1, <2>2
<1>4. Grounded /\ Scopes /\ Olds /\ \A h \in Handler : ~Untainted(h)
  BY <1>3 DEF Grounded, GroundedAs, Scopes, Olds, Untainted
<1>5. \A r \in Used : r = 1 /\ start # "nothing" /\ party[r][1] = p /\ party[r][2] = q
  BY <1>1, Distinct DEF Used
<1>6. Rooted
  <2>1. start # "nothing" => party[1] = <<p, q>>
    BY <1>1, Distinct
  <2> QED
    BY <1>1, <2>1, Distinct DEF Rooted
<1>7. On \subseteq {1}
  BY <1>1 DEF On
<1>8. \A r \in Used : Agreed(r) /\ Alone(r)
  <2> SUFFICES ASSUME NEW r \in Used PROVE Agreed(r) /\ Alone(r)
    OBVIOUS
  <2>1. r = 1 /\ party[r][1] = p /\ party[r][2] = q /\ start # "nothing" /\ 1 # None
    BY <1>5, Distinct
  <2>2. Alone(r)
    BY <1>7, <2>1 DEF Alone
  <2>3. Agreed(r)
    BY <1>1, <2>1 DEF Agreed, Unmet
  <2> QED
    BY <2>2, <2>3
<1>9. Agreement
  BY <1>8 DEF Agreement, Clean
<1> QED
  BY <1>4, <1>6, <1>9 DEF KeysInv

-----------------------------------------------------------------------------
(* What it gives *)

\* However commands interleave and keys expire: the keys of two peers at rest agree,
\* unless commands concerned one of them that overlapped, or that came between the
\* expiries of the keys of one request.
THEOREM KeysHold == Spec => []KeysAgree
<1>1. Inv /\ KeysInv => KeysAgree
  <2> SUFFICES ASSUME Inv, KeysInv, NEW r \in Used, AtRest({party[r][1], party[r][2]})
               PROVE  /\ from[party[r][1]] = r => to[party[r][2]] = r
                      /\ to[party[r][2]] = r => r \in open
                      /\ r \in open => r \notin live /\ sess[party[r][1]] \notin live
                                                     /\ sess[party[r][2]] \notin live
                      /\ r \in live => sess[party[r][1]] = r /\ sess[party[r][2]] = r
    BY DEF KeysAgree
  <2>1. Clean(r) /\ \A h \in Handler : Scope(cmd[h]) \cap Ends(r) = {}
    BY DEF AtRest, Clean, Ends
  <2>2. \A h \in Handler : ~Middle(h, r)
    BY <2>1, MiddleConcerns DEF Inv, KeysInv, Grounded
  <2>3. Agreed(r) \/ Waning(r)
    BY <2>1, <2>2 DEF KeysInv, Agreement, Used
  <2> QED
    BY <2>3 DEF Agreed, Waning, Unmet
<1>2. Init => Inv /\ KeysInv
  BY InitHolds, InitKeys
<1>3. Inv /\ KeysInv /\ [Next]_vars => Inv' /\ KeysInv'
  BY NextKeeps, NextKeepsKeys
<1> QED
  BY <1>1, <1>2, <1>3, PTL DEF Spec
=============================================================================
