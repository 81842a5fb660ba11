--------------------------- MODULE AccountsProofs ---------------------------
(***************************************************************************)
(* What TLC shows of Accounts on small instances, for any number of        *)
(* people, names, codes and requests.                                      *)
(***************************************************************************)
EXTENDS Accounts, FiniteSetTheorems, TLAPS

JobOps == {"free", "register", "login", "oauth", "ban", "unban", "admin", "delete", "invite"}
JobStages == {"end", "claim", "row", "take", "burn", "session", "index", "resolve", "look", "upsert",
              "judge", "clean", "drop", "erase", "code", "list"}
JobRecs == [op : JobOps, at : JobStages, id : Ids \cup {No}, name : Names \cup {No},
            code : Codes \cup {No}, row : AccountRows \cup {No}, flag : BOOLEAN,
            seen : SUBSET (Codes \cup Names)]

\* What a request has in hand.
JobSound(q) ==
    /\ q \in JobRecs
    /\ q.at = "end" => q = Free
    /\ q.at # "end" => q.id \in Ids
    /\ q.op = "register" => q.id \in Locals
    /\ q.at \in {"claim", "row", "take", "burn"} => q.op = "register" /\ q.name \in Names
    /\ q.at \in {"take", "burn"} => q.code \in Codes
    /\ q.at \in {"resolve", "look", "upsert"} => q.op = "oauth" /\ q.id \in Known /\ q.row \in AccountRows
    /\ q.at = "resolve" => q.name \in Names
    /\ q.at = "judge" => /\ q.op \in {"ban", "unban", "admin"} /\ q.row \in AccountRows
                         /\ q.op = "ban" => q.row.banned
                         /\ q.id \in Locals => q.row.name \in Names
    /\ q.at \in {"session", "index"} => q.op \in {"register", "login", "oauth"}
    /\ q.at \in {"clean", "drop"} => q.op \in {"register", "delete", "ban"}
    /\ q.at = "erase" => q.op \in {"register", "delete"}
    /\ q.at \in {"code", "list"} => q.op = "invite"
    /\ q.at = "list" => q.code \in Codes
    /\ q.op = "ban" => q.name = No

AccountTypes ==
    /\ account \in [Ids -> AccountRows \cup {No}]
    /\ \A i \in Locals : account[i] # No => account[i].name \in Names
    /\ listedUsers \subseteq Ids /\ session \subseteq Ids /\ sessionIdx \subseteq Ids
    /\ nameIndex \in [Names -> Ids \cup {No}]
    /\ invite \in [Codes -> Ids \cup {No}]
    /\ openInvites \in [Ids -> SUBSET Codes]
    /\ starts \in 0..MaxStarts
    /\ admitted \in [Codes \cup {No} -> SUBSET Ids]
    /\ DOMAIN job = Jobs /\ \A j \in Jobs : JobSound(job[j])

\* The rows caches may hold are rows, of a name where the account is local; an account
\* that is written, or about to be judged, has had one.
CopiesRight ==
    /\ copies \in [Ids -> SUBSET AccountRows]
    /\ \A i \in Locals : \A r \in copies[i] : r.name \in Names
    /\ \A i \in Ids : account[i] # No => copies[i] # {}
    /\ \A j \in Jobs : job[j].at = "judge" => copies[job[j].id] # {}

\* Two requests about one account, or two registrations with one code, are on record.
Apart ==
    \A j, k \in Jobs : j # k =>
      /\ job[j].id = job[k].id => job[j].id \in overlap \cup {No}
      /\ job[j].op = "register" /\ job[k].op = "register" /\ job[j].code = job[k].code =>
           job[j].code \in overlap \cup {No}

\* A code that can still be used has let in nobody.
Presents(q) == q.op = "register" /\ q.at \in {"claim", "row", "take", "burn"} /\ q.code # No
CodesRight ==
    /\ \A c \in Codes : invite[c] # No => admitted[c] = {}
    /\ \A c \in Codes \ overlap : \A x, y \in admitted[c] : x = y
    /\ \A j \in Jobs : Presents(job[j]) /\ job[j].code \notin overlap => admitted[job[j].code] = {}

\* Nothing is known yet of a local account that is not written; only its registration is about it.
Unwritten(j) ==
    job[j].at \in {"claim", "row"} =>
      /\ account[job[j].id] = No /\ copies[job[j].id] = {} /\ job[j].id \notin broken
      /\ \A k \in Jobs \ {j} : job[k].id # job[j].id

\* A name leads to the account that has it, or is about to be written with it, or was
\* left unfinished; whoever will write that account or release its name, and every copy
\* of its row, knows it by this name.
NamedBy(i, n) ==
    \/ i \in broken
    \/ account[i] # No /\ account[i].name = n
    \/ \E j \in Jobs : job[j].at = "row" /\ job[j].id = i /\ job[j].name = n
KnownBy(q, n) ==
    /\ q.at # "erase"
    /\ q.op = "register" /\ q.at \notin {"session", "index"} => q.name = n
    /\ q.op = "delete" => q.name = n
    /\ q.at = "judge" => q.row.name = n
NamesRight ==
    \A n \in Names, i \in Locals : nameIndex[n] = i =>
      /\ NamedBy(i, n) /\ \A r \in copies[i] : r.name = n
      /\ \A j \in Jobs, q \in JobRecs : q = job[j] /\ q.id = i => KnownBy(q, n)
ClaimsKept ==
    \A j \in Jobs : job[j].at = "row" /\ job[j].id \notin robbed => nameIndex[job[j].name] = job[j].id

\* An account that no two requests were ever at.
Admitted(i) == \E c \in Codes \cup {No} : i \in admitted[c]
Leads(i) == i \in Locals /\ account[i] # No /\ i \notin robbed => nameIndex[account[i].name] = i
Entered(i) == (i \in Locals /\ account[i] # No => Admitted(i)) /\ Leads(i)
Out(i) == account[i] = No \/ account[i].banned
Listed(i) == i \in session => i \in sessionIdx
Settled(i) == Entered(i) /\ Listed(i) /\ (Out(i) => i \notin session)

\* How far its only request has brought it.
BroughtTo(q) ==
    LET i == q.id IN
    /\ q.at \notin {"take", "burn", "index", "clean", "drop", "erase"} => Settled(i)
    /\ q.at \in {"take", "burn"} => Leads(i) /\ Listed(i) /\ ~Out(i)
    /\ q.at = "session" => ~Out(i)
    /\ q.at = "index" => Entered(i) /\ ~Out(i)
    /\ q.at \in {"resolve", "look", "upsert"} /\ q.row.banned => i \notin session
    /\ q.at = "judge" => /\ account[i] # No /\ q.row.name = account[i].name
                         /\ q.op # "ban" /\ q.row.banned => i \notin session
    /\ q.at = "clean" => Listed(i)
    /\ q.at = "drop" => (i \in session => q.flag)
    /\ q.at \in {"clean", "drop"} /\ q.op = "ban" => Entered(i)
    /\ q.at = "erase" => i \notin session

AccountInv ==
    /\ AccountTypes /\ CopiesRight /\ Apart /\ CodesRight /\ NamesRight /\ ClaimsKept
    /\ \A j \in Jobs : Unwritten(j)
    /\ \A i \in Ids \ overlap : (\A j \in Jobs : job[j].id # i) => Settled(i)
    /\ \A j \in Jobs, q \in JobRecs : q = job[j] /\ q.at # "end" /\ q.id \notin overlap => BroughtTo(q)

LEMMA NoIsNothing ==
    /\ No \notin Ids /\ No \notin Names /\ No \notin Codes /\ No \notin AccountRows
    /\ Founder \in Locals /\ Locals \subseteq Ids /\ Known \subseteq Ids
    /\ \A i \in Known : i \notin Locals
    /\ MaxStarts \in Nat
BY AccountsAssumed DEF AccountAssumption, Ids

LEMMA FreeIs ==
    /\ Free \in JobRecs /\ Free.op = "free" /\ Free.at = "end" /\ Free.id = No /\ Free.name = No
    /\ Free.code = No /\ Free.row = No /\ Free.flag = FALSE /\ Free.seen = {} /\ JobSound(Free)
<1>1. /\ Free \in JobRecs /\ Free.op = "free" /\ Free.at = "end" /\ Free.id = No /\ Free.name = No
      /\ Free.code = No /\ Free.row = No /\ Free.flag = FALSE /\ Free.seen = {}
  BY DEF Free, JobRecs, JobOps, JobStages
<1> QED
  BY <1>1 DEF JobSound

LEMMA JobFacts ==
    ASSUME AccountInv, NEW j \in Jobs
    PROVE  /\ JobSound(job[j]) /\ job[j] \in JobRecs /\ DOMAIN job = Jobs
           /\ job[j].at = "end" <=> job[j] = Free
           /\ job[j].at # "end" <=> job[j].id # No
           /\ job[j].at # "end" => job[j].id \in Ids
BY FreeIs, NoIsNothing DEF AccountInv, AccountTypes, JobSound

-----------------------------------------------------------------------------
\* Request j, about account i, goes on to c or ends; or begins as c.
Going(j, i, c) ==
    /\ job' = [job EXCEPT ![j] = c]
    /\ overlap \subseteq overlap'
    /\ \/ /\ job[j].at # "end" /\ i = job[j].id
          /\ \/ c = Free
             \/ /\ c.at # "end" /\ c.id = i /\ c.op = job[j].op
                /\ c.op = "register" => c.code = job[j].code
       \/ /\ job[j] = Free /\ c.at # "end" /\ c.id = i
          /\ {k \in {i} : Busy(k)} \cup {x \in {c.code} \ {No} : Taking(x) # {}} \subseteq overlap'

\* Its step may add to the copies of the row.
Holding(i) ==
    /\ copies' \in [Ids -> SUBSET AccountRows] /\ copies[i] \subseteq copies'[i]
    /\ \A k \in Ids \ {i} : copies'[k] = copies[k]
    /\ i \in Locals => \A r \in copies'[i] : r.name \in Names

LEMMA SameCopies ==
    ASSUME AccountInv, UNCHANGED copies
    PROVE  /\ \A i \in Ids : Holding(i) /\ (account[i] # No => copies'[i] # {})
           /\ \A i \in Locals, n \in Names : nameIndex[n] = i => \A r \in copies'[i] : r.name = n
           /\ \A j \in Jobs : job[j].at = "judge" => copies'[job[j].id] # {}
BY DEF AccountInv, CopiesRight, Holding, NamesRight

\* The row written is one more of them.
LEMMA OneMore ==
    ASSUME AccountInv, NEW i \in Ids, NEW row \in AccountRows, Caches(i, row), i \in Locals => row.name \in Names
    PROVE  /\ Holding(i) /\ copies'[i] = copies[i] \cup {row} /\ copies'[i] # {}
           /\ \A n \in Names : row.name = n /\ (\A r \in copies[i] : r.name = n) =>
                                \A r \in copies'[i] : r.name = n
<1>1. CopiesRight
  BY DEF AccountInv
<1>2. copies' = [copies EXCEPT ![i] = copies[i] \cup {row}]
  BY DEF Caches
<1>3. copies'[i] = copies[i] \cup {row} /\ \A k \in Ids \ {i} : copies'[k] = copies[k]
  BY <1>1, <1>2 DEF CopiesRight
<1>4. copies' \in [Ids -> SUBSET AccountRows]
  BY <1>1, <1>2 DEF CopiesRight
<1> QED
  BY <1>1, <1>3, <1>4 DEF CopiesRight, Holding

LEMMA GoingMoves ==
    ASSUME AccountInv, NEW j \in Jobs, NEW i \in Ids, NEW c, Going(j, i, c), JobSound(c)
    PROVE  /\ DOMAIN job' = Jobs
           /\ \A m \in Jobs : job'[m] = IF m = j THEN c ELSE job[m]
           /\ overlap \subseteq overlap' /\ i \in Ids /\ c.id \in {i, No}
           /\ c.at # "end" <=> c.id = i
BY JobFacts, FreeIs, NoIsNothing DEF Going, JobSound

LEMMA ApartKept ==
    ASSUME AccountInv, NEW j \in Jobs, NEW i \in Ids, NEW c, Going(j, i, c), JobSound(c)
    PROVE  Apart'
<1> SUFFICES ASSUME NEW m \in Jobs, NEW k \in Jobs, m # k
             PROVE  /\ job'[m].id = job'[k].id => job'[m].id \in overlap' \cup {No}
                    /\ job'[m].op = "register" /\ job'[k].op = "register" /\ job'[m].code = job'[k].code =>
                         job'[m].code \in overlap' \cup {No}
  BY DEF Apart
<1>1. Apart
  BY DEF AccountInv
<1>2. /\ \A x \in Jobs : job'[x] = IF x = j THEN c ELSE job[x]
      /\ overlap \subseteq overlap'
  BY GoingMoves
<1>3. ASSUME NEW x \in Jobs, NEW y \in Jobs, x # y
      PROVE  /\ job[x].id = job[y].id => job[x].id \in overlap \cup {No}
             /\ job[x].op = "register" /\ job[y].op = "register" /\ job[x].code = job[y].code =>
                  job[x].code \in overlap \cup {No}
  BY <1>1, <1>3 DEF Apart
<1>4. ASSUME NEW x \in Jobs \ {j}
      PROVE  /\ c.id = job[x].id => c.id \in overlap' \cup {No}
             /\ c.op = "register" /\ job[x].op = "register" /\ c.code = job[x].code =>
                  c.code \in overlap' \cup {No}
  <2>1. CASE job[j].at # "end"
    <3>1. CASE c = Free
      BY <3>1, FreeIs
    <3>2. CASE c # Free
      BY <1>2, <1>3, <1>4, <2>1, <3>2, FreeIs DEF Going
    <3> QED
      BY <3>1, <3>2
  <2>2. CASE job[j] = Free
    <3>1. {y \in {i} : Busy(y)} \cup {z \in {c.code} \ {No} : Taking(z) # {}} \subseteq overlap'
      BY <2>2, FreeIs DEF Going
    <3>2. c.id = job[x].id => c.id \in overlap' \cup {No}
      BY <1>4, <2>2, <3>1, FreeIs DEF Going, Busy
    <3>3. ASSUME job[x].op = "register", c.code = job[x].code PROVE c.code \in overlap' \cup {No}
      <4>1. x \in Taking(c.code)
        BY <1>4, <3>3 DEF Taking
      <4> QED
        BY <3>1, <4>1
    <3> QED
      BY <3>2, <3>3
  <2> QED
    BY <2>1, <2>2, JobFacts
<1>5. CASE m # j /\ k # j
  BY <1>2, <1>3, <1>5
<1>6. CASE m = j
  BY <1>2, <1>4, <1>6
<1>7. CASE k = j
  BY <1>2, <1>4, <1>7
<1> QED
  BY <1>5, <1>6, <1>7

\* What a step finds of an account that no two requests were at.
LEMMA Found ==
    ASSUME AccountInv, NEW j \in Jobs, NEW i \in Ids, NEW c, Going(j, i, c), i \notin overlap'
    PROVE  /\ i \notin overlap
           /\ \A m \in Jobs \ {j} : job[m].id # i
           /\ job[j].at = "end" => Settled(i)
           /\ \A q \in JobRecs : q = job[j] /\ q.at # "end" => BroughtTo(q)
<1>1. i \notin overlap
  BY DEF Going
<1>2. \A m \in Jobs \ {j} : job[m].id # i
  <2>1. CASE job[j].at # "end"
    <3>1. Apart /\ i = job[j].id
      BY <2>1, FreeIs DEF AccountInv, Going
    <3> QED
      BY <1>1, <3>1, NoIsNothing DEF Apart
  <2>2. CASE job[j] = Free
    BY <2>2, FreeIs DEF Going, Busy
  <2> QED
    BY <2>1, <2>2, JobFacts
<1>3. job[j].at = "end" => Settled(i)
  BY <1>1, <1>2, FreeIs, JobFacts, NoIsNothing DEF AccountInv
<1>4. \A q \in JobRecs : q = job[j] /\ q.at # "end" => BroughtTo(q)
  BY <1>1, FreeIs DEF Going, AccountInv
<1> QED
  BY <1>1, <1>2, <1>3, <1>4

\* Codes that only go, and a registration that presents what was there.
LEMMA CodesKept ==
    ASSUME AccountInv, NEW j \in Jobs, NEW i \in Ids, NEW c, Going(j, i, c), JobSound(c),
           \A x \in Codes : admitted'[x] = admitted[x] /\ invite'[x] \in {invite[x], No},
           Presents(c) => c.code \in Codes,
           Presents(c) /\ c.code \notin overlap' => Presents(job[j]) \/ invite[c.code] # No
    PROVE  CodesRight'
<1>1. CodesRight
  BY DEF AccountInv
<1>2. ASSUME NEW m \in Jobs, Presents(job'[m]), job'[m].code \notin overlap'
      PROVE  admitted'[job'[m].code] = {}
  <2>1. CASE m # j
    <3>1. job'[m] = job[m] /\ job[m].code \notin overlap
      BY <1>2, <2>1, GoingMoves
    <3>2. job[m].code \in Codes
      BY <1>2, <3>1, JobFacts DEF Presents, JobRecs
    <3> QED
      BY <1>1, <1>2, <3>1, <3>2 DEF CodesRight
  <2>2. CASE m = j
    <3>1. job'[m] = c /\ c.code \in Codes /\ c.code \notin overlap
      BY <1>2, <2>2, GoingMoves
    <3>2. CASE Presents(job[j])
      <4>1. job[j].at # "end" /\ job[j].code = c.code
        BY <1>2, <3>1, <3>2, FreeIs DEF Presents, Going
      <4> QED
        BY <1>1, <3>1, <3>2, <4>1 DEF CodesRight
    <3>3. CASE invite[c.code] # No
      BY <1>1, <3>1, <3>3 DEF CodesRight
    <3> QED
      BY <1>2, <3>1, <3>2, <3>3, <2>2
  <2> QED
    BY <2>1, <2>2
<1> QED
  BY <1>1, <1>2, GoingMoves DEF CodesRight

\* A step of a request keeps the invariant when what it leaves behind does.
LEMMA AccountMoved ==
    ASSUME AccountInv, NEW j \in Jobs, NEW i \in Ids, NEW c, Going(j, i, c), JobSound(c),
           AccountTypes', CodesRight', robbed \subseteq robbed', Holding(i),
           broken \subseteq broken', \A k \in Ids \ {i} : k \in broken' => k \in broken,
           account'[i] # No \/ c.at = "judge" => copies'[i] # {},
           \A x \in Codes \cup {No} : admitted[x] \subseteq admitted'[x],
           \A k \in Ids \ {i} : /\ account'[k] = account[k]
                                /\ k \in session' <=> k \in session
                                /\ k \in sessionIdx' <=> k \in sessionIdx,
           \A n \in Names : /\ nameIndex'[n] = nameIndex[n] \/ nameIndex'[n] \in {No, i}
                            /\ nameIndex'[n] = nameIndex[n] \/ nameIndex[n] \in {No, i}
                               \/ nameIndex[n] \in robbed',
           \A n \in Names : nameIndex'[n] = i /\ i \in Locals =>
             /\ NamedBy(i, n)' /\ (\A r \in copies'[i] : r.name = n) /\ (c # Free => KnownBy(c, n))
             /\ nameIndex[n] = i \/ \A m \in Jobs \ {j} : job[m].id # i,
           c.at = "row" /\ i \notin robbed' => nameIndex'[c.name] = i,
           c.at \in {"claim", "row"} => /\ account'[i] = No /\ copies'[i] = {} /\ i \notin broken'
                                        /\ \A m \in Jobs \ {j} : job[m].id # i,
           \A m \in Jobs \ {j} : job[m].id = i => job[m].at \notin {"claim", "row"},
           i \notin overlap' => IF c = Free THEN Settled(i)' ELSE BroughtTo(c)'
    PROVE  AccountInv'
<1>1. /\ \A m \in Jobs : job'[m] = IF m = j THEN c ELSE job[m]
      /\ overlap \subseteq overlap' /\ c.id \in {i, No} /\ (c.at # "end" <=> c.id = i) /\ i # No
  BY GoingMoves, NoIsNothing
<1>2. /\ Apart' /\ AccountTypes /\ NamesRight /\ ClaimsKept /\ \A m \in Jobs : Unwritten(m)
  BY ApartKept DEF AccountInv
<1>3. /\ \A n \in Names : nameIndex[n] \in Ids \cup {No} /\ nameIndex'[n] \in Ids \cup {No}
      /\ Locals \subseteq Ids
  BY <1>2, NoIsNothing DEF AccountTypes
<1>4. NamesRight'
  <2> SUFFICES ASSUME NEW n \in Names, NEW k \in Locals, nameIndex'[n] = k
               PROVE  /\ NamedBy(k, n)' /\ \A r \in copies'[k] : r.name = n
                      /\ \A m \in Jobs, q \in JobRecs : q = job'[m] /\ q.id = k => KnownBy(q, n)
    BY Zenon DEF NamesRight
  <2>1. CASE k = i
    <3>1. /\ NamedBy(k, n)' /\ (\A r \in copies'[k] : r.name = n) /\ (c # Free => KnownBy(c, n))
          /\ nameIndex[n] = i \/ \A m \in Jobs \ {j} : job[m].id # i
      BY <2>1
    <3>2. ASSUME NEW m \in Jobs, NEW q \in JobRecs, q = job'[m], q.id = k PROVE KnownBy(q, n)
      <4>1. CASE m = j
        BY <1>1, <2>1, <3>1, <3>2, <4>1, FreeIs
      <4>2. CASE m # j
        <5>1. q = job[m] /\ nameIndex[n] = k
          BY <1>1, <2>1, <3>1, <3>2, <4>2
        <5> QED
          BY <1>2, <3>2, <5>1 DEF NamesRight
      <4> QED
        BY <4>1, <4>2
    <3> QED
      BY <3>1, <3>2
  <2>2. CASE k # i
    <3>1. k = nameIndex[n] /\ k \in Ids \ {i} /\ k # No
      BY <1>3, <2>2, NoIsNothing
    <3>2. /\ NamedBy(k, n) /\ \A r \in copies'[k] : r.name = n
          /\ \A m \in Jobs, q \in JobRecs : q = job[m] /\ q.id = k => KnownBy(q, n)
      BY <1>2, <3>1 DEF NamesRight, Holding
    <3>3. NamedBy(k, n)'
      <4>3. CASE k \in broken
        BY <4>3 DEF NamedBy
      <4>1. CASE account[k] # No /\ account[k].name = n
        BY <3>1, <4>1 DEF NamedBy
      <4>2. CASE \E m \in Jobs : job[m].at = "row" /\ job[m].id = k /\ job[m].name = n
        <5>1. PICK m \in Jobs : job[m].at = "row" /\ job[m].id = k /\ job[m].name = n
          BY <4>2
        <5>2. m # j
          BY <3>1, <5>1, FreeIs DEF Going
        <5> QED
          BY <1>1, <5>1, <5>2 DEF NamedBy
      <4> QED
        BY <3>2, <4>1, <4>2, <4>3 DEF NamedBy
    <3>4. ASSUME NEW m \in Jobs, NEW q \in JobRecs, q = job'[m], q.id = k PROVE KnownBy(q, n)
      BY <1>1, <3>1, <3>2, <3>4
    <3> QED
      BY <3>2, <3>3, <3>4
  <2> QED
    BY <2>1, <2>2
<1>5. ClaimsKept'
  <2> SUFFICES ASSUME NEW m \in Jobs, job'[m].at = "row", job'[m].id \notin robbed'
               PROVE  nameIndex'[job'[m].name] = job'[m].id
    BY DEF ClaimsKept
  <2>1. CASE m = j
    BY <1>1, <2>1
  <2>2. CASE m # j
    <3>1. job'[m] = job[m] /\ job[m].id \in Ids \ {i} /\ job[m].name \in Names
      BY <1>1, <2>2, JobFacts DEF JobSound
    <3>2. nameIndex[job[m].name] = job[m].id
      BY <1>2, <3>1 DEF ClaimsKept
    <3> QED
      BY <3>1, <3>2, NoIsNothing
  <2> QED
    BY <2>1, <2>2
<1>6. ASSUME NEW m \in Jobs PROVE Unwritten(m)'
  <2>1. CASE m = j
    BY <1>1, <2>1 DEF Unwritten
  <2>2. CASE m # j
    <3> SUFFICES ASSUME job[m].at \in {"claim", "row"}
                 PROVE  /\ account'[job[m].id] = No /\ copies'[job[m].id] = {} /\ job[m].id \notin broken'
                        /\ \A k \in Jobs \ {m} : job'[k].id # job[m].id
      BY <1>1, <2>2 DEF Unwritten
    <3>1. job[m].id \in Ids \ {i}
      BY <2>2, JobFacts DEF JobSound
    <3>2. /\ account[job[m].id] = No /\ copies[job[m].id] = {} /\ job[m].id \notin broken
          /\ \A k \in Jobs \ {m} : job[k].id # job[m].id
      BY <1>2 DEF Unwritten
    <3> QED
      BY <1>1, <3>1, <3>2, NoIsNothing DEF Holding
  <2> QED
    BY <2>1, <2>2
<1>7. ASSUME NEW k \in Ids \ {i} PROVE (Entered(k) => Entered(k)') /\ (Leads(k) => Leads(k)')
  <2>1. Leads(k) => Leads(k)'
    <3> SUFFICES ASSUME Leads(k), k \in Locals, account[k] # No, k \notin robbed'
                 PROVE  nameIndex'[account[k].name] = k
      BY <1>7 DEF Leads
    <3>1. nameIndex[account[k].name] = k /\ account[k].name \in Names
      BY <1>2 DEF Leads, AccountTypes
    <3> QED
      BY <3>1, <1>7, NoIsNothing
  <2>2. Admitted(k) => Admitted(k)'
    BY DEF Admitted
  <2> QED
    BY <1>7, <2>1, <2>2 DEF Entered
<1>8. ASSUME NEW k \in Ids \ {i} PROVE Settled(k) => Settled(k)'
  BY <1>7, <1>8 DEF Settled, Listed, Out
<1>9. ASSUME NEW k \in Ids \ overlap', \A m \in Jobs : job'[m].id # k PROVE Settled(k)'
  <2>1. CASE k = i
    BY <1>1, <1>9, <2>1, FreeIs DEF JobSound
  <2>2. CASE k # i
    <3>1. job[j].id # k
      BY <1>9, <2>2, FreeIs, NoIsNothing DEF Going
    <3>2. \A m \in Jobs : job[m].id # k
      BY <1>1, <1>9, <3>1
    <3> QED
      BY <1>1, <1>8, <1>9, <2>2, <3>2 DEF AccountInv
  <2> QED
    BY <2>1, <2>2
<1>10. ASSUME NEW m \in Jobs, NEW q \in JobRecs, q = job'[m], q.at # "end", q.id \notin overlap'
      PROVE  BroughtTo(q)'
  <2>1. CASE m = j
    BY <1>1, <1>10, <2>1, FreeIs
  <2>2. CASE m # j
    <3>1. q = job[m] /\ q.id \in Ids /\ q.id # i
      BY <1>1, <1>10, <2>2, JobFacts, Found
    <3>2. BroughtTo(q)
      BY <1>1, <1>10, <3>1 DEF AccountInv
    <3>3. PICK k \in Ids \ {i} : k = q.id
      BY <3>1
    <3>4. /\ Settled(q.id) => Settled(q.id)'
          /\ Entered(q.id) => Entered(q.id)'
          /\ Leads(q.id) => Leads(q.id)'
          /\ Out(q.id) <=> Out(q.id)'
          /\ Listed(q.id) <=> Listed(q.id)'
          /\ account'[q.id] = account[q.id]
          /\ q.id \in session' <=> q.id \in session
      BY <3>3, <1>7, <1>8 DEF Listed, Out
    <3> QED
      BY <3>2, <3>4 DEF BroughtTo
  <2> QED
    BY <2>1, <2>2
<1>11. CopiesRight'
  <2>1. CopiesRight
    BY DEF AccountInv
  <2>2. \A k \in Locals : \A r \in copies'[k] : r.name \in Names
    BY <1>3, <2>1 DEF CopiesRight, Holding
  <2>3. \A k \in Ids : account'[k] # No => copies'[k] # {}
    BY <2>1 DEF CopiesRight, Holding
  <2>4. ASSUME NEW m \in Jobs, job'[m].at = "judge" PROVE copies'[job'[m].id] # {}
    <3>1. CASE m = j
      BY <1>1, <2>4, <3>1
    <3>2. CASE m # j
      <4>1. job'[m] = job[m] /\ job[m].id \in Ids /\ copies[job[m].id] # {}
        BY <1>1, <2>1, <2>4, <3>2, JobFacts DEF CopiesRight
      <4> QED
        BY <4>1 DEF Holding
    <3> QED
      BY <3>1, <3>2
  <2> QED
    BY <2>2, <2>3, <2>4 DEF CopiesRight, Holding
<1> QED
  BY <1>2, <1>4, <1>5, <1>6, <1>9, <1>10, <1>11 DEF AccountInv

\* No request but the registration of a local account is about it before it is written.
LEMMA NoneUnwritten ==
    ASSUME AccountInv, NEW j \in Jobs, NEW i \in Ids, NEW c, Going(j, i, c),
           job[j].at = "end" => i \in Known \/ copies[i] # {}
    PROVE  \A m \in Jobs \ {j} : job[m].id = i => job[m].at \notin {"claim", "row"}
<1> SUFFICES ASSUME NEW m \in Jobs \ {j}, job[m].id = i, job[m].at \in {"claim", "row"}
             PROVE  FALSE
  OBVIOUS
<1>1. copies[i] = {} /\ job[j].id # i /\ i \in Locals
  BY JobFacts DEF AccountInv, Unwritten, JobSound
<1>2. job[j].at = "end"
  BY <1>1, JobFacts DEF Going
<1> QED
  BY <1>1, <1>2, NoIsNothing

\* A step that leaves the accounts and their names alone.
LEMMA AccountWaits ==
    ASSUME AccountInv, NEW j \in Jobs, NEW i \in Ids, NEW c, Going(j, i, c), JobSound(c),
           AccountTypes', CodesRight', UNCHANGED <<account, nameIndex, robbed, broken>>,
           Holding(i), c.at = "judge" => copies'[i] # {},
           \A n \in Names : nameIndex[n] = i /\ i \in Locals => \A r \in copies'[i] : r.name = n,
           \A x \in Codes \cup {No} : admitted[x] \subseteq admitted'[x],
           \A k \in Ids \ {i} : /\ k \in session' <=> k \in session
                                /\ k \in sessionIdx' <=> k \in sessionIdx,
           job[j].at \notin {"claim", "row"}, c.at \notin {"claim", "row"},
           job[j].at = "end" => i \in Known \/ copies[i] # {},
           \A n \in Names, q \in JobRecs :
             q = job[j] /\ nameIndex[n] = i /\ i \in Locals /\ c # Free
             /\ (IF q.at = "end" THEN \A r \in copies[i] : r.name = n ELSE KnownBy(q, n)) => KnownBy(c, n),
           i \notin overlap' => IF c = Free THEN Settled(i)' ELSE BroughtTo(c)'
    PROVE  AccountInv'
<1>1. \A m \in Jobs \ {j} : job[m].id = i => job[m].at \notin {"claim", "row"}
  BY NoneUnwritten
<1>2. ASSUME NEW n \in Names, nameIndex'[n] = i, i \in Locals
      PROVE  NamedBy(i, n)' /\ (\A r \in copies'[i] : r.name = n) /\ (c # Free => KnownBy(c, n))
  <2>1. /\ NamedBy(i, n) /\ \A r \in copies[i] : r.name = n
        /\ \A q \in JobRecs : q = job[j] /\ q.id = i => KnownBy(q, n)
    BY <1>2 DEF AccountInv, NamesRight
  <2>2. i \in broken \/ (account[i] # No /\ account[i].name = n)
    BY <1>1, <2>1, NoIsNothing DEF NamedBy, Going
  <2>3. job[j].at = "end" \/ job[j].id = i
    BY FreeIs DEF Going
  <2> QED
    BY <1>2, <2>1, <2>2, <2>3, JobFacts DEF NamedBy
<1>3. robbed \subseteq robbed' /\ broken \subseteq broken'
  OBVIOUS
<1>4. account'[i] # No => copies'[i] # {}
  BY DEF AccountInv, CopiesRight, Holding
<1> QED
  BY <1>1, <1>2, <1>3, <1>4, AccountMoved

LEMMA Begins ==
    ASSUME AccountInv, NEW j \in Jobs, NEW row, NEW c, StartOn(j, row, c), JobSound(c), c.at # "end"
    PROVE  /\ Going(j, c.id, c) /\ c.id \in Ids /\ starts' \in 0..MaxStarts /\ UNCHANGED <<robbed, broken>>
           /\ job[j] = Free /\ job[j].at = "end"
           /\ DOMAIN job' = Jobs /\ \A m \in Jobs : JobSound(job'[m])
           /\ c.id \notin overlap' => row = account[c.id]
<1>1. /\ job[j] = Free /\ starts < MaxStarts /\ job' = [job EXCEPT ![j] = c]
      /\ starts' = starts + 1 /\ UNCHANGED <<robbed, broken>>
  BY DEF StartOn
<1>2. c.id \in Ids
  BY DEF JobSound
<1>3. /\ overlap \subseteq overlap'
      /\ {k \in {c.id} : Busy(k)} \cup {x \in {c.code} \ {No} : Taking(x) # {}} \subseteq overlap'
      /\ c.id \notin overlap' => row = account[c.id]
  BY DEF StartOn
<1>4. Going(j, c.id, c)
  BY <1>1, <1>3, FreeIs DEF Going
<1>5. starts' \in 0..MaxStarts
  BY <1>1, NoIsNothing DEF AccountInv, AccountTypes
<1>6. DOMAIN job' = Jobs /\ \A m \in Jobs : JobSound(job'[m])
  BY <1>2, <1>4, GoingMoves, JobFacts
<1> QED
  BY <1>1, <1>2, <1>3, <1>4, <1>5, <1>6, FreeIs

-----------------------------------------------------------------------------
(* Requests begin                                                          *)

\* A request that begins about an account that stood once, on a copy of its row.
LEMMA BeginKeeps ==
    ASSUME AccountInv, NEW j \in Jobs, NEW row, NEW c, StartOn(j, row, c), JobSound(c),
           c.at \notin {"end", "claim", "row"},
           UNCHANGED <<account, listedUsers, nameIndex, session, sessionIdx, invite, openInvites, admitted>>,
           Holding(c.id), c.at = "judge" => copies'[c.id] # {},
           \A n \in Names : nameIndex[n] = c.id /\ c.id \in Locals => \A r \in copies'[c.id] : r.name = n,
           c.id \in Known \/ copies[c.id] # {}, c.op # "register",
           \A n \in Names : nameIndex[n] = c.id /\ c.id \in Locals /\ (\A r \in copies[c.id] : r.name = n) =>
                            KnownBy(c, n),
           row = account[c.id] /\ Settled(c.id) => BroughtTo(c)
    PROVE  AccountInv'
<1>1. PICK i \in Ids : i = c.id
  BY Begins
<1>2. /\ Going(j, i, c) /\ job[j] = Free /\ job[j].at = "end"
      /\ DOMAIN job' = Jobs /\ \A m \in Jobs : JobSound(job'[m])
      /\ starts' \in 0..MaxStarts /\ UNCHANGED <<robbed, broken>>
      /\ i \notin overlap' => row = account[i]
  BY <1>1, Begins
<1>3. AccountTypes'
  BY <1>2 DEF AccountInv, AccountTypes
<1>4. CodesRight'
  <2>1. ~Presents(c)
    BY DEF Presents
  <2> QED
    BY <1>2, <2>1, CodesKept
<1>5. ASSUME i \notin overlap' PROVE BroughtTo(c)'
  <2>1. BroughtTo(c)
    BY <1>1, <1>2, <1>5, Found
  <2> QED
    BY <1>2, <2>1 DEF BroughtTo, Settled, Entered, Listed, Leads, Admitted, Out
<1>6. c # Free
  BY FreeIs
<1>7. /\ Holding(i) /\ (c.at = "judge" => copies'[i] # {}) /\ (i \in Known \/ copies[i] # {})
      /\ \A n \in Names : nameIndex[n] = i /\ i \in Locals => \A r \in copies'[i] : r.name = n
      /\ \A n \in Names : nameIndex[n] = i /\ i \in Locals /\ (\A r \in copies[i] : r.name = n) => KnownBy(c, n)
  BY <1>1
<1>8. UNCHANGED <<account, nameIndex, robbed, broken>>
  BY <1>2
<1> QED
  BY <1>2, <1>3, <1>4, <1>5, <1>6, <1>7, <1>8, AccountWaits

\* One that leaves the copies as they are.
LEMMA BeginPlain ==
    ASSUME AccountInv, NEW j \in Jobs, NEW row, NEW c, StartOn(j, row, c), JobSound(c),
           c.at \notin {"end", "claim", "row", "judge"},
           UNCHANGED <<account, listedUsers, nameIndex, session, sessionIdx, invite, openInvites, copies, admitted>>,
           c.id \in Known \/ copies[c.id] # {}, c.op # "register",
           \A n \in Names : c.id \in Locals /\ (\A r \in copies[c.id] : r.name = n) => KnownBy(c, n),
           row = account[c.id] /\ Settled(c.id) => BroughtTo(c)
    PROVE  AccountInv'
<1>1. c.id \in Ids
  BY DEF JobSound
<1>2. /\ Holding(c.id)
      /\ \A n \in Names : nameIndex[n] = c.id /\ c.id \in Locals => \A r \in copies'[c.id] : r.name = n
  BY <1>1, SameCopies
<1> QED
  BY <1>1, <1>2, BeginKeeps

\* What a cached row is.
LEMMA CopyIs ==
    ASSUME AccountInv, NEW i \in Ids, NEW row \in copies[i]
    PROVE  /\ row \in AccountRows /\ row # No /\ copies[i] # {}
           /\ row.name \in Names \cup {No} /\ (i \in Locals => row.name \in Names)
<1>1. row \in AccountRows /\ (i \in Locals => row.name \in Names)
  BY DEF AccountInv, CopiesRight
<1> QED
  BY <1>1, NoIsNothing DEF AccountRows

LEMMA LoginKeeps ==
    ASSUME AccountInv, NEW j \in Jobs, NEW n \in Names, Login(j, n)
    PROVE  AccountInv'
<1>1. PICK i \in Locals : i = nameIndex[n] /\ i \in Ids
  BY NoIsNothing DEF Login
<1>2. PICK c : c = [Free EXCEPT !.op = "login", !.at = "session", !.id = i]
  OBVIOUS
<1>3. c \in JobRecs /\ c.op = "login" /\ c.at = "session" /\ c.id = i
  BY <1>1, <1>2, NoIsNothing DEF Free, JobRecs, JobOps, JobStages
<1>4. PICK row \in copies[i] : ~row.banned /\ StartOn(j, row, c)
  BY <1>1, <1>2 DEF Login
<1>5. JobSound(c)
  BY <1>1, <1>3, NoIsNothing DEF JobSound
<1>6. /\ UNCHANGED <<account, listedUsers, nameIndex, session, sessionIdx, invite, openInvites, copies, admitted>>
      /\ row # No /\ copies[i] # {}
  BY <1>1, CopyIs DEF Login, Users, Sessions, Invites
<1>7. row = account[i] /\ Settled(i) => BroughtTo(c)
  BY <1>3, <1>4, <1>6 DEF BroughtTo, Out
<1>8. \A m \in Names : KnownBy(c, m)
  BY <1>3 DEF KnownBy
<1> QED
  BY <1>3, <1>4, <1>5, <1>6, <1>7, <1>8, BeginPlain

LEMMA OAuthKeeps ==
    ASSUME AccountInv, NEW j \in Jobs, NEW i \in Known, NEW n \in Names, OAuth(j, i, n)
    PROVE  AccountInv'
<1> DEFINE new == account[i] = No
           old == IF new THEN Fresh(No, Bootstrap) ELSE account[i]
           row == [old EXCEPT !.admin = @ \/ {i, n} \cap AdminIds # {}]
<1>1. i \in Ids /\ account[i] \in AccountRows \cup {No} /\ Bootstrap \in BOOLEAN
  BY NoIsNothing, AccountsAssumed DEF AccountInv, AccountTypes, AccountAssumption, Bootstrap
<1>2. old \in AccountRows /\ (old.banned => account[i] # No /\ account[i].banned)
  BY <1>1 DEF Fresh, AccountRows
<1> HIDE DEF old
<1>3. row \in AccountRows /\ row.banned = old.banned
  BY <1>2 DEF AccountRows
<1> HIDE DEF row
<1>4. PICK c : c = [Free EXCEPT !.op = "oauth", !.at = "resolve", !.id = i, !.name = n, !.row = row]
  OBVIOUS
<1>5. c \in JobRecs /\ c.op = "oauth" /\ c.at = "resolve" /\ c.id = i /\ c.name = n /\ c.row = row
  BY <1>1, <1>3, <1>4, NoIsNothing DEF Free, JobRecs, JobOps, JobStages
<1>6. JobSound(c) /\ StartOn(j, account[c.id], c)
  <2>1. Start(j, c)
    BY <1>4 DEF OAuth, row, old
  <2> QED
    BY <1>1, <1>3, <1>5, <2>1, NoIsNothing DEF JobSound, Start
<1>7. UNCHANGED <<account, listedUsers, nameIndex, session, sessionIdx, invite, openInvites, copies, admitted>>
  BY DEF OAuth, Users, Sessions, Invites
<1>8. Settled(i) => BroughtTo(c)
  BY <1>2, <1>3, <1>5 DEF BroughtTo, Out, Settled
<1>9. c.id \in Known /\ c.id \notin Locals
  BY <1>5, NoIsNothing
<1> QED
  BY <1>5, <1>6, <1>7, <1>8, <1>9, BeginPlain

LEMMA JudgeKeeps ==
    ASSUME AccountInv, NEW j \in Jobs, NEW i \in Ids, NEW op \in {"ban", "unban", "admin"}, Judge(j, i, op)
    PROVE  AccountInv'
<1> DEFINE Judged(r) == IF op = "admin" THEN [r EXCEPT !.admin = ~@] ELSE [r EXCEPT !.banned = op = "ban"]
<1>1. PICK row \in copies[i] : /\ Caches(i, Judged(row))
                              /\ StartOn(j, row, [Free EXCEPT !.op = op, !.at = "judge", !.id = i, !.row = Judged(row)])
  BY DEF Judge
<1>2. /\ row \in AccountRows /\ row # No /\ copies[i] # {} /\ (i \in Locals => row.name \in Names)
  BY CopyIs
<1>3. PICK judged : judged = Judged(row)
  OBVIOUS
<1>4. /\ judged \in AccountRows /\ judged.name = row.name /\ (op = "ban" => judged.banned)
      /\ op # "ban" /\ judged.banned => row.banned
  BY <1>2, <1>3 DEF AccountRows
<1>5. Caches(i, judged)
  BY <1>1, <1>3
<1>6. PICK q : q = [Free EXCEPT !.op = op, !.at = "judge", !.id = i, !.row = judged]
  OBVIOUS
<1>7. StartOn(j, row, q)
  BY <1>1, <1>3, <1>6
<1> HIDE DEF Judged
<1>8. q \in JobRecs /\ q.op = op /\ q.at = "judge" /\ q.id = i /\ q.row = judged /\ q.name = No
  BY <1>4, <1>6, NoIsNothing DEF Free, JobRecs, JobOps, JobStages
<1>9. JobSound(q)
  BY <1>2, <1>4, <1>8, NoIsNothing DEF JobSound
<1>10. UNCHANGED <<account, listedUsers, nameIndex, session, sessionIdx, invite, openInvites, admitted>>
  BY DEF Judge, Users, Sessions, Invites
<1>11. row = account[i] /\ Settled(i) => BroughtTo(q)
  BY <1>2, <1>4, <1>8 DEF BroughtTo, Out, Settled
<1>12. \A n \in Names : (\A r \in copies[i] : r.name = n) => row.name = n /\ KnownBy(q, n)
  BY <1>4, <1>8 DEF KnownBy
<1>13. /\ Holding(i) /\ copies'[i] # {}
       /\ \A n \in Names : judged.name = n /\ (\A r \in copies[i] : r.name = n) =>
                            \A r \in copies'[i] : r.name = n
  BY <1>2, <1>4, <1>5, OneMore
<1>14. \A n \in Names : nameIndex[n] = i /\ i \in Locals => \A r \in copies[i] : r.name = n
  BY DEF AccountInv, NamesRight
<1>15. \A n \in Names : nameIndex[n] = i /\ i \in Locals => \A r \in copies'[i] : r.name = n
  BY <1>4, <1>12, <1>13, <1>14
<1> QED
  BY <1>2, <1>7, <1>8, <1>9, <1>10, <1>11, <1>12, <1>13, <1>15, BeginKeeps

LEMMA DeleteKeeps ==
    ASSUME AccountInv, NEW j \in Jobs, NEW i \in Ids, Delete(j, i)
    PROVE  AccountInv'
<1>1. PICK row \in copies[i] : Start(j, [Free EXCEPT !.op = "delete", !.at = "clean", !.id = i, !.name = row.name])
  BY DEF Delete
<1>2. row.name \in Names \cup {No} /\ copies[i] # {}
  BY CopyIs
<1>3. PICK c : c = [Free EXCEPT !.op = "delete", !.at = "clean", !.id = i, !.name = row.name]
  OBVIOUS
<1>4. c \in JobRecs /\ c.op = "delete" /\ c.at = "clean" /\ c.id = i /\ c.name = row.name
  BY <1>2, <1>3, NoIsNothing DEF Free, JobRecs, JobOps, JobStages
<1>5. JobSound(c) /\ StartOn(j, account[c.id], c)
  BY <1>1, <1>2, <1>3, <1>4, NoIsNothing DEF JobSound, Start
<1>6. UNCHANGED <<account, listedUsers, nameIndex, session, sessionIdx, invite, openInvites, copies, admitted>>
  BY DEF Delete, Users, Sessions, Invites
<1>7. Settled(i) => BroughtTo(c)
  BY <1>4 DEF BroughtTo, Settled
<1>8. \A n \in Names : (\A r \in copies[i] : r.name = n) => KnownBy(c, n)
  BY <1>4 DEF KnownBy
<1> QED
  BY <1>2, <1>4, <1>5, <1>6, <1>7, <1>8, BeginPlain

LEMMA InviteKeeps ==
    ASSUME AccountInv, NEW j \in Jobs, NEW i \in Ids, Invite(j, i)
    PROVE  AccountInv'
<1>1. copies[i] # {}
  BY DEF Invite
<1>2. PICK c : c = [Free EXCEPT !.op = "invite", !.at = "code", !.id = i]
  OBVIOUS
<1>3. c \in JobRecs /\ c.op = "invite" /\ c.at = "code" /\ c.id = i
  BY <1>2, NoIsNothing DEF Free, JobRecs, JobOps, JobStages
<1>4. JobSound(c) /\ StartOn(j, account[c.id], c)
  BY <1>2, <1>3, NoIsNothing DEF JobSound, Invite, Start
<1>5. UNCHANGED <<account, listedUsers, nameIndex, session, sessionIdx, invite, openInvites, copies, admitted>>
  BY DEF Invite, Users, Sessions, Invites
<1>6. Settled(i) => BroughtTo(c)
  BY <1>3 DEF BroughtTo
<1>7. \A n \in Names : KnownBy(c, n)
  BY <1>3 DEF KnownBy
<1> QED
  BY <1>1, <1>3, <1>4, <1>5, <1>6, <1>7, BeginPlain

-----------------------------------------------------------------------------
(* Requests go on                                                          *)

LEMMA Proceeds ==
    ASSUME AccountInv, NEW j \in Jobs, NEW q \in JobRecs, q = job[j], q.at # "end", NEW c, Set(j, c),
           UNCHANGED overlap, JobSound(c),
           c = Free \/ /\ c.at # "end" /\ c.id = q.id /\ c.op = q.op
                       /\ c.op = "register" => c.code = q.code
    PROVE  /\ Going(j, q.id, c) /\ q.id \in Ids /\ starts' \in 0..MaxStarts
           /\ DOMAIN job' = Jobs /\ \A m \in Jobs : JobSound(job'[m])
<1>1. Going(j, q.id, c) /\ q.id \in Ids
  BY JobFacts DEF Set, Going
<1>2. DOMAIN job' = Jobs /\ \A m \in Jobs : JobSound(job'[m])
  BY <1>1, GoingMoves, JobFacts
<1> QED
  BY <1>1, <1>2 DEF Set, AccountInv, AccountTypes

\* A request that goes on as it is, or ends.
LEMMA GoesTo ==
    ASSUME AccountInv, NEW j \in Jobs, NEW at \in JobStages, Go(j, at)
    PROVE  \E c \in JobRecs :
             /\ Set(j, c) /\ (at = "end" => c = Free)
             /\ at # "end" => /\ c.at = at /\ c.id = job[j].id /\ c.op = job[j].op /\ c.code = job[j].code
                              /\ c.name = job[j].name /\ c.row = job[j].row /\ c.flag = job[j].flag
                              /\ c.seen = job[j].seen
<1>1. PICK c : c = IF at = "end" THEN Free ELSE [job[j] EXCEPT !.at = at]
  OBVIOUS
<1>2. job[j] \in JobRecs
  BY JobFacts
<1>3. /\ c \in JobRecs
      /\ at # "end" => /\ c.at = at /\ c.id = job[j].id /\ c.op = job[j].op /\ c.code = job[j].code
                       /\ c.name = job[j].name /\ c.row = job[j].row /\ c.flag = job[j].flag
                       /\ c.seen = job[j].seen
  BY <1>1, <1>2, FreeIs DEF JobRecs
<1>4. Set(j, c)
  BY <1>1 DEF Go
<1> QED
  BY <1>1, <1>3, <1>4

LEMMA StepWaits ==
    ASSUME AccountInv, NEW j \in Jobs, NEW q \in JobRecs, q = job[j],
           NEW c, Set(j, c), JobSound(c), q.at \notin {"end", "claim", "row"},
           c = Free \/ /\ c.at \notin {"end", "claim", "row", "judge"} /\ c.id = q.id /\ c.op = q.op
                       /\ c.op = "register" => c.code = q.code,
           Presents(c) => Presents(q),
           UNCHANGED <<account, listedUsers, nameIndex, invite, robbed, broken, overlap, copies, admitted>>,
           session' \subseteq Ids, sessionIdx' \subseteq Ids, openInvites' \in [Ids -> SUBSET Codes],
           \A k \in Ids \ {q.id} : /\ k \in session' <=> k \in session
                                   /\ k \in sessionIdx' <=> k \in sessionIdx,
           \A n \in Names : nameIndex[n] = q.id /\ q.id \in Locals /\ c # Free /\ KnownBy(q, n) => KnownBy(c, n),
           BroughtTo(q) => IF c = Free THEN Settled(q.id)' ELSE BroughtTo(c)'
    PROVE  AccountInv'
<1>1. PICK i \in Ids : i = q.id
  BY JobFacts
<1>2. /\ Going(j, i, c) /\ DOMAIN job' = Jobs /\ \A m \in Jobs : JobSound(job'[m])
      /\ starts' \in 0..MaxStarts
  BY <1>1, Proceeds
<1>3. AccountTypes'
  BY <1>2 DEF AccountInv, AccountTypes
<1>4. Presents(c) => c.code \in Codes
  BY DEF Presents, JobSound, JobRecs
<1>5. CodesRight'
  BY <1>2, <1>4, CodesKept
<1>6. c.at \notin {"claim", "row"}
  BY FreeIs
<1>7. ASSUME i \notin overlap' PROVE IF c = Free THEN Settled(i)' ELSE BroughtTo(c)'
  <2>1. BroughtTo(q)
    BY <1>2, <1>7, Found
  <2> QED
    BY <1>1, <2>1 DEF Settled, Entered, Leads, Listed, Out, Admitted
<1>8. \A n \in Names, p \in JobRecs :
        p = job[j] /\ nameIndex[n] = i /\ i \in Locals /\ c # Free
        /\ (IF p.at = "end" THEN account[i].name = n ELSE KnownBy(p, n)) => KnownBy(c, n)
  BY <1>1
<1>9. /\ \A k \in Ids \ {i} : /\ k \in session' <=> k \in session
                              /\ k \in sessionIdx' <=> k \in sessionIdx
      /\ \A x \in Codes \cup {No} : admitted[x] \subseteq admitted'[x]
  BY <1>1
<1>10. /\ Holding(i) /\ (c.at = "judge" => copies'[i] # {})
       /\ \A n \in Names : nameIndex[n] = i /\ i \in Locals => \A r \in copies'[i] : r.name = n
  BY <1>1, FreeIs, SameCopies
<1> QED
  BY <1>1, <1>2, <1>3, <1>5, <1>6, <1>7, <1>8, <1>9, <1>10, AccountWaits

LEMMA TakeCodeKeeps ==
    ASSUME AccountInv, NEW j \in Jobs, Take(j)
    PROVE  AccountInv'
<1>1. PICK q \in JobRecs : q = job[j] /\ JobSound(q) /\ q.at = "take"
  BY JobFacts DEF Take, On
<1>2. PICK at \in {"clean", "burn"} : at = Taken(q.code)
  BY DEF Taken
<1>3. PICK c \in JobRecs : /\ Set(j, c) /\ c.at = at /\ c.id = q.id /\ c.op = q.op /\ c.code = q.code
                           /\ c.name = q.name /\ c.row = q.row /\ c.flag = q.flag
  BY <1>1, <1>2, GoesTo DEF Take, JobStages
<1>4. JobSound(c) /\ q.op = "register" /\ q.code \in Codes /\ c # Free
  BY <1>1, <1>2, <1>3, FreeIs DEF JobSound
<1>5. UNCHANGED <<account, listedUsers, nameIndex, invite, robbed, broken, overlap, copies, admitted, session, sessionIdx, openInvites>>
  BY DEF Take, Users, Sessions, Invites, History
<1>6. BroughtTo(q) => BroughtTo(c)'
  BY <1>1, <1>2, <1>3, <1>4, <1>5 DEF BroughtTo, Leads, Listed, Out, Settled, Entered, Admitted
<1>7. Presents(c) => Presents(q)
  BY <1>1, <1>3 DEF Presents
<1>8. \A n \in Names : KnownBy(q, n) => KnownBy(c, n)
  BY <1>1, <1>2, <1>3, <1>4 DEF KnownBy
<1>9. session \subseteq Ids /\ sessionIdx \subseteq Ids /\ openInvites \in [Ids -> SUBSET Codes]
  BY DEF AccountInv, AccountTypes
<1> QED
  BY <1>1, <1>2, <1>3, <1>4, <1>5, <1>6, <1>7, <1>8, <1>9, StepWaits

LEMMA OpenSessionKeeps ==
    ASSUME AccountInv, NEW j \in Jobs, OpenSession(j)
    PROVE  AccountInv'
<1>1. PICK q \in JobRecs : q = job[j] /\ JobSound(q) /\ q.at = "session" /\ q.id \in Ids
  BY JobFacts DEF OpenSession, On, JobSound
<1>3. PICK c \in JobRecs : /\ Set(j, c) /\ c.at = "index" /\ c.id = q.id /\ c.op = q.op /\ c.code = q.code
                           /\ c.name = q.name /\ c.row = q.row /\ c.flag = q.flag
  BY <1>1, GoesTo DEF OpenSession, JobStages
<1>4. JobSound(c) /\ c # Free /\ q.op \in {"register", "login", "oauth"}
  BY <1>1, <1>3, FreeIs DEF JobSound
<1>5. /\ UNCHANGED <<account, listedUsers, nameIndex, invite, robbed, broken, overlap, copies, admitted, sessionIdx, openInvites>>
      /\ session' = session \cup {q.id}
  BY <1>1 DEF OpenSession, Users, Sessions, Invites, History
<1>6. BroughtTo(q) => BroughtTo(c)'
  BY <1>1, <1>3, <1>4, <1>5 DEF BroughtTo, Leads, Listed, Out, Settled, Entered, Admitted
<1>7. Presents(c) => Presents(q)
  BY <1>1, <1>3 DEF Presents
<1>8. \A n \in Names : KnownBy(q, n) => KnownBy(c, n)
  BY <1>1, <1>3, <1>4 DEF KnownBy
<1>9. session' \subseteq Ids /\ sessionIdx \subseteq Ids /\ openInvites \in [Ids -> SUBSET Codes]
  BY <1>1, <1>5 DEF AccountInv, AccountTypes
<1> QED
  BY <1>1, <1>3, <1>4, <1>5, <1>6, <1>7, <1>8, <1>9, StepWaits

LEMMA IndexSessionKeeps ==
    ASSUME AccountInv, NEW j \in Jobs, IndexSession(j)
    PROVE  AccountInv'
<1>1. PICK q \in JobRecs : q = job[j] /\ JobSound(q) /\ q.at = "index" /\ q.id \in Ids
  BY JobFacts DEF IndexSession, On, JobSound
<1>2. Set(j, Free)
  BY GoesTo DEF IndexSession, JobStages
<1>3. /\ UNCHANGED <<account, listedUsers, nameIndex, invite, robbed, broken, overlap, copies, admitted, session, openInvites>>
      /\ sessionIdx' = sessionIdx \cup {q.id}
  BY <1>1 DEF IndexSession, Users, Sessions, Invites, History
<1>4. BroughtTo(q) => Settled(q.id)'
  BY <1>1, <1>3 DEF BroughtTo, Leads, Listed, Out, Settled, Entered, Admitted
<1>5. ~Presents(Free)
  BY FreeIs DEF Presents
<1>6. session' \subseteq Ids /\ sessionIdx' \subseteq Ids /\ openInvites \in [Ids -> SUBSET Codes]
  BY <1>1, <1>3 DEF AccountInv, AccountTypes
<1> QED
  BY <1>1, <1>2, <1>3, <1>4, <1>5, <1>6, FreeIs, StepWaits

LEMMA ResolveKeeps ==
    ASSUME AccountInv, NEW j \in Jobs, Resolve(j)
    PROVE  AccountInv'
<1>1. PICK q \in JobRecs : /\ q = job[j] /\ JobSound(q) /\ q.at = "resolve" /\ q.id \in Known /\ q.op = "oauth"
                           /\ q.row \in AccountRows /\ q.name \in Names
  BY JobFacts DEF Resolve, On, JobSound
<1>2. PICK name : name = IF nameIndex[q.name] \in {No, q.id} THEN q.name ELSE q.row.name
  OBVIOUS
<1>3. name \in Names \cup {No} /\ q.row.name \in Names \cup {No}
  BY <1>1, <1>2 DEF AccountRows
<1>4. PICK row : row = [q.row EXCEPT !.name = name]
  OBVIOUS
<1>5. row \in AccountRows /\ row.banned = q.row.banned
  BY <1>1, <1>3, <1>4 DEF AccountRows
<1>6. PICK c : c = [q EXCEPT !.at = "look", !.name = q.row.name, !.row = row]
  OBVIOUS
<1>7. /\ c \in JobRecs /\ c.at = "look" /\ c.id = q.id /\ c.op = q.op /\ c.code = q.code
      /\ c.row = row /\ c.seen = q.seen
  BY <1>3, <1>5, <1>6 DEF JobRecs, JobStages
<1>8. Set(j, c)
  <2>1. Set(j, [q EXCEPT !.at = "look", !.name = q.row.name, !.row.name = name])
    BY <1>1, <1>2 DEF Resolve
  <2>2. [q EXCEPT !.at = "look", !.name = q.row.name, !.row.name = name] = c
    BY <1>4, <1>6 DEF JobRecs
  <2> QED
    BY <2>1, <2>2
<1>9. JobSound(c) /\ c # Free /\ q.id \notin Locals
  BY <1>1, <1>3, <1>5, <1>7, FreeIs, NoIsNothing DEF JobSound
<1>10. UNCHANGED <<account, listedUsers, nameIndex, invite, robbed, broken, overlap, copies, admitted, session, sessionIdx, openInvites>>
  BY DEF Resolve, Users, Sessions, Invites, History
<1>11. BroughtTo(q) => BroughtTo(c)'
  BY <1>1, <1>5, <1>7, <1>9, <1>10 DEF BroughtTo, Leads, Listed, Out, Settled, Entered, Admitted
<1>12. ~Presents(c)
  BY <1>7 DEF Presents
<1>13. session \subseteq Ids /\ sessionIdx \subseteq Ids /\ openInvites \in [Ids -> SUBSET Codes]
  BY DEF AccountInv, AccountTypes
<1> QED
  BY <1>1, <1>7, <1>8, <1>9, <1>10, <1>11, <1>12, <1>13, StepWaits

LEMMA LookAgainKeeps ==
    ASSUME AccountInv, NEW j \in Jobs, LookAgain(j)
    PROVE  AccountInv'
<1>1. PICK q \in JobRecs : /\ q = job[j] /\ JobSound(q) /\ q.at = "look" /\ q.id \in Known /\ q.op = "oauth"
                           /\ q.row \in AccountRows
  BY JobFacts DEF LookAgain, On, JobSound
<1>2. PICK flag, seen : /\ flag = (q.row.name # No /\ nameIndex[q.row.name] \in {No, q.id})
                        /\ seen = {n \in {q.name} \ {No, q.row.name} : nameIndex[n] = q.id}
  OBVIOUS
<1>3. flag \in BOOLEAN /\ seen \in SUBSET (Codes \cup Names)
  BY <1>1, <1>2 DEF JobRecs
<1>4. PICK c : c = [q EXCEPT !.at = "upsert", !.flag = flag, !.seen = seen]
  OBVIOUS
<1>5. /\ c \in JobRecs /\ c.at = "upsert" /\ c.id = q.id /\ c.op = q.op /\ c.code = q.code
      /\ c.row = q.row /\ c.name = q.name
  BY <1>3, <1>4 DEF JobRecs, JobStages
<1>6. Set(j, c)
  BY <1>1, <1>2, <1>4 DEF LookAgain
<1>7. JobSound(c) /\ c # Free /\ q.id \notin Locals
  BY <1>1, <1>5, FreeIs, NoIsNothing DEF JobSound
<1>8. UNCHANGED <<account, listedUsers, nameIndex, invite, robbed, broken, overlap, copies, admitted, session, sessionIdx, openInvites>>
  BY DEF LookAgain, Users, Sessions, Invites, History
<1>9. BroughtTo(q) => BroughtTo(c)'
  BY <1>1, <1>5, <1>7, <1>8 DEF BroughtTo, Leads, Listed, Out, Settled, Entered, Admitted
<1>10. ~Presents(c)
  BY <1>5 DEF Presents
<1>11. session \subseteq Ids /\ sessionIdx \subseteq Ids /\ openInvites \in [Ids -> SUBSET Codes]
  BY DEF AccountInv, AccountTypes
<1> QED
  BY <1>1, <1>5, <1>6, <1>7, <1>8, <1>9, <1>10, <1>11, StepWaits

LEMMA CleanKeeps ==
    ASSUME AccountInv, NEW j \in Jobs, Clean(j)
    PROVE  AccountInv'
<1>1. PICK q \in JobRecs : /\ q = job[j] /\ JobSound(q) /\ q.at = "clean" /\ q.id \in Ids
                           /\ q.op \in {"register", "delete", "ban"}
  BY JobFacts DEF Clean, On, JobSound
<1>2. PICK name, seen, flag : /\ name = IF q.name # No /\ nameIndex[q.name] = q.id THEN q.name ELSE No
                              /\ seen = openInvites[q.id] /\ flag = (q.id \in sessionIdx)
  OBVIOUS
<1>3. flag \in BOOLEAN /\ seen \in SUBSET (Codes \cup Names) /\ name \in Names \cup {No} /\ (q.op = "ban" => name = No)
  BY <1>1, <1>2 DEF JobRecs, AccountInv, AccountTypes, JobSound
<1>4. PICK c : c = [q EXCEPT !.at = "drop", !.seen = seen, !.flag = flag, !.name = name]
  OBVIOUS
<1>5. /\ c \in JobRecs /\ c.at = "drop" /\ c.id = q.id /\ c.op = q.op /\ c.code = q.code
      /\ c.row = q.row /\ c.name = name /\ c.flag = flag
  BY <1>3, <1>4 DEF JobRecs, JobStages
<1>6. Set(j, c)
  <2>1. Set(j, [q EXCEPT !.at = "drop", !.seen = seen, !.flag = flag,
                         !.name = IF @ # No /\ nameIndex[@] = q.id THEN @ ELSE No])
    BY <1>1, <1>2 DEF Clean
  <2> QED
    BY <1>2, <1>4, <2>1 DEF JobRecs
<1>7. JobSound(c) /\ c # Free
  BY <1>1, <1>3, <1>5, FreeIs, NoIsNothing DEF JobSound
<1>8. UNCHANGED <<account, listedUsers, nameIndex, invite, robbed, broken, overlap, copies, admitted, session, sessionIdx, openInvites>>
  BY DEF Clean, Users, Sessions, Invites, History
<1>9. BroughtTo(q) => BroughtTo(c)'
  BY <1>1, <1>2, <1>5, <1>7, <1>8 DEF BroughtTo, Leads, Listed, Out, Settled, Entered, Admitted
<1>10. ~Presents(c)
  BY <1>5 DEF Presents
<1>11. session \subseteq Ids /\ sessionIdx \subseteq Ids /\ openInvites \in [Ids -> SUBSET Codes]
  BY DEF AccountInv, AccountTypes
<1>12. \A n \in Names : nameIndex[n] = q.id /\ KnownBy(q, n) => KnownBy(c, n)
  BY <1>1, <1>2, <1>5, NoIsNothing DEF KnownBy
<1> QED
  BY <1>1, <1>5, <1>6, <1>7, <1>8, <1>9, <1>10, <1>11, <1>12, StepWaits

LEMMA ListCodeKeeps ==
    ASSUME AccountInv, NEW j \in Jobs, ListCode(j)
    PROVE  AccountInv'
<1>1. PICK q \in JobRecs : q = job[j] /\ JobSound(q) /\ q.at = "list" /\ q.id \in Ids /\ q.op = "invite" /\ q.code \in Codes
  BY JobFacts DEF ListCode, On, JobSound
<1>2. Set(j, Free)
  BY GoesTo DEF ListCode, JobStages
<1>3. UNCHANGED <<account, listedUsers, nameIndex, invite, robbed, broken, overlap, copies, admitted, session, sessionIdx>>
  BY DEF ListCode, Users, Sessions, History
<1>4. BroughtTo(q) => Settled(q.id)'
  BY <1>1, <1>3 DEF BroughtTo, Leads, Listed, Out, Settled, Entered, Admitted
<1>5. ~Presents(Free)
  BY FreeIs DEF Presents
<1>6. session \subseteq Ids /\ sessionIdx \subseteq Ids /\ openInvites' \in [Ids -> SUBSET Codes]
  BY <1>1 DEF ListCode, AccountInv, AccountTypes
<1> QED
  BY <1>1, <1>2, <1>3, <1>4, <1>5, <1>6, FreeIs, StepWaits

LEMMA BurnKeeps ==
    ASSUME AccountInv, NEW j \in Jobs, Burn(j)
    PROVE  AccountInv'
<1>1. PICK q \in JobRecs : /\ q = job[j] /\ JobSound(q) /\ q.at = "burn" /\ q.op = "register"
                           /\ q.code \in Codes
  BY JobFacts DEF Burn, On, JobSound
<1>2. PICK i \in Ids : i = q.id
  BY <1>1 DEF JobSound
<1>3. PICK c \in JobRecs : /\ Set(j, c) /\ c.at = "session" /\ c.id = q.id /\ c.op = q.op /\ c.code = q.code
                           /\ c.name = q.name /\ c.row = q.row
  BY <1>1, GoesTo DEF Burn, JobStages
<1>4. /\ UNCHANGED <<account, listedUsers, nameIndex, robbed, broken, overlap, copies, session, sessionIdx>>
      /\ invite' = [invite EXCEPT ![q.code] = No]
      /\ openInvites' = [k \in Ids |-> openInvites[k] \ {q.code}]
      /\ admitted' = [admitted EXCEPT ![q.code] = @ \cup {i}]
  BY <1>1, <1>2 DEF Burn, Users, Sessions
<1>5. JobSound(c) /\ c # Free
  BY <1>1, <1>2, <1>3, FreeIs DEF JobSound
<1>6. /\ Going(j, i, c) /\ starts' \in 0..MaxStarts
      /\ DOMAIN job' = Jobs /\ \A m \in Jobs : JobSound(job'[m])
  BY <1>1, <1>2, <1>3, <1>4, <1>5, Proceeds
<1>7. AccountTypes /\ CodesRight /\ Apart
  BY DEF AccountInv
<1>8. AccountTypes'
  BY <1>4, <1>6, <1>7, NoIsNothing DEF AccountTypes
<1>9. /\ \A x \in Codes \cup {No} : admitted'[x] = IF x = q.code THEN admitted[x] \cup {i} ELSE admitted[x]
      /\ \A x \in Codes : invite'[x] = IF x = q.code THEN No ELSE invite[x]
  BY <1>4, <1>7 DEF AccountTypes
<1>10. CodesRight'
  <2>1. \A x \in Codes : invite'[x] # No => admitted'[x] = {}
    BY <1>7, <1>9 DEF CodesRight
  <2>2. ASSUME NEW x \in Codes \ overlap PROVE \A y, z \in admitted'[x] : y = z
    <3>1. CASE x = q.code
      <4>1. Presents(job[j]) /\ job[j].code \notin overlap
        BY <1>1, <2>2, <3>1, NoIsNothing DEF Presents
      <4>2. admitted[q.code] = {}
        BY <1>1, <1>7, <4>1 DEF CodesRight
      <4>3. admitted'[x] = {i}
        BY <1>9, <3>1, <4>2
      <4> QED
        BY <4>3
    <3>2. CASE x # q.code
      BY <1>7, <1>9, <2>2, <3>2 DEF CodesRight
    <3> QED
      BY <3>1, <3>2
  <2>3. ASSUME NEW m \in Jobs, Presents(job'[m]), job'[m].code \notin overlap
        PROVE  admitted'[job'[m].code] = {}
    <3>1. m # j /\ job'[m] = job[m]
      BY <1>3, <1>5, <1>6, <2>3, GoingMoves DEF Presents
    <3>2. job[m].code # q.code /\ job[m].code \in Codes
      BY <1>1, <1>7, <2>3, <3>1, JobFacts, NoIsNothing DEF Presents, Apart, JobRecs
    <3>3. Presents(job[m]) /\ job[m].code \notin overlap
      BY <2>3, <3>1 DEF Presents
    <3>4. admitted[job[m].code] = {}
      BY <1>7, <3>3 DEF CodesRight
    <3>5. admitted'[job[m].code] = admitted[job[m].code]
      BY <1>9, <3>2
    <3> QED
      BY <3>1, <3>4, <3>5
  <2> QED
    BY <1>4, <2>1, <2>2, <2>3 DEF CodesRight
<1>11. ASSUME i \notin overlap' PROVE BroughtTo(c)'
  <2>1. BroughtTo(q)
    BY <1>1, <1>6, <1>11, Found
  <2>2. Admitted(i)'
    BY <1>1, <1>9 DEF Admitted
  <2>3. Leads(i)' /\ Listed(i)' /\ ~Out(i)'
    BY <1>1, <1>2, <1>4, <2>1 DEF BroughtTo, Leads, Listed, Out
  <2>4. Settled(i)' /\ ~Out(i)'
    BY <2>2, <2>3 DEF Settled, Entered
  <2> QED
    BY <1>2, <1>3, <2>4 DEF BroughtTo
<1>12. /\ \A x \in Codes \cup {No} : admitted[x] \subseteq admitted'[x]
       /\ \A n \in Names, p \in JobRecs : p = job[j] => KnownBy(c, n)
  BY <1>1, <1>3, <1>9 DEF KnownBy
<1>13. /\ Holding(i)
       /\ \A n \in Names : nameIndex[n] = i /\ i \in Locals => \A r \in copies'[i] : r.name = n
  BY <1>4, SameCopies
<1> QED
  BY <1>1, <1>3, <1>4, <1>5, <1>6, <1>8, <1>10, <1>11, <1>12, <1>13, AccountWaits

LEMMA NewCodeKeeps ==
    ASSUME AccountInv, NEW j \in Jobs, NEW x \in Codes, NewCode(j, x)
    PROVE  AccountInv'
<1>1. PICK q \in JobRecs : q = job[j] /\ JobSound(q) /\ q.at = "code" /\ q.op = "invite"
  BY JobFacts DEF NewCode, On, JobSound
<1>2. PICK i \in Ids : i = q.id
  BY <1>1 DEF JobSound
<1>3. PICK c : c = [q EXCEPT !.at = "list", !.code = x]
  OBVIOUS
<1>4. c \in JobRecs /\ c.at = "list" /\ c.id = q.id /\ c.op = q.op /\ c.code = x
  BY <1>3 DEF JobRecs, JobStages
<1>5. JobSound(c) /\ c # Free /\ Set(j, c)
  BY <1>1, <1>2, <1>3, <1>4, FreeIs DEF JobSound, NewCode
<1>6. /\ UNCHANGED <<account, listedUsers, nameIndex, robbed, broken, overlap, session, sessionIdx, openInvites,
                      copies, admitted>>
      /\ invite' = [invite EXCEPT ![x] = i] /\ admitted[x] = {}
  BY <1>1, <1>2 DEF NewCode, Users, Sessions, History
<1>7. /\ Going(j, i, c) /\ starts' \in 0..MaxStarts
      /\ DOMAIN job' = Jobs /\ \A m \in Jobs : JobSound(job'[m])
  BY <1>1, <1>2, <1>4, <1>5, <1>6, Proceeds
<1>8. AccountTypes /\ CodesRight
  BY DEF AccountInv
<1>9. AccountTypes'
  BY <1>6, <1>7, <1>8, NoIsNothing DEF AccountTypes
<1>10. CodesRight'
  <2>1. \A y \in Codes : invite'[y] # No => admitted[y] = {}
    BY <1>6, <1>8 DEF CodesRight, AccountTypes
  <2>2. \A m \in Jobs : Presents(job'[m]) => Presents(job[m]) /\ job'[m] = job[m]
    BY <1>1, <1>4, <1>5, <1>7, GoingMoves DEF Presents
  <2>3. ASSUME NEW m \in Jobs, Presents(job'[m]), job'[m].code \notin overlap
        PROVE  admitted[job'[m].code] = {}
    BY <1>8, <2>2, <2>3 DEF CodesRight
  <2> QED
    BY <1>6, <1>8, <2>1, <2>3 DEF CodesRight
<1>11. ASSUME i \notin overlap' PROVE BroughtTo(c)'
  <2>1. BroughtTo(q)
    BY <1>1, <1>7, <1>11, Found
  <2> QED
    BY <1>1, <1>4, <1>6, <2>1 DEF BroughtTo, Settled, Entered, Leads, Listed, Out, Admitted
<1>12. \A n \in Names : KnownBy(c, n)
  BY <1>1, <1>4 DEF KnownBy
<1>13. /\ Holding(i)
       /\ \A n \in Names : nameIndex[n] = i /\ i \in Locals => \A r \in copies'[i] : r.name = n
  BY <1>6, SameCopies
<1> QED
  BY <1>1, <1>4, <1>5, <1>6, <1>7, <1>9, <1>10, <1>11, <1>12, <1>13, AccountWaits

\* Codes stay what they are when no request presents one it did not.
LEMMA CodesLeft ==
    ASSUME AccountInv, NEW j \in Jobs, NEW i \in Ids, NEW c, Going(j, i, c), JobSound(c),
           UNCHANGED <<admitted, invite>>, Presents(c) => Presents(job[j])
    PROVE  CodesRight'
<1>1. Presents(c) => c.code \in Codes
  BY DEF Presents, JobSound, JobRecs
<1> QED
  BY <1>1, CodesKept

LEMMA WriteJudgedKeeps ==
    ASSUME AccountInv, NEW j \in Jobs, WriteJudged(j)
    PROVE  AccountInv'
<1>1. PICK q \in JobRecs : /\ q = job[j] /\ JobSound(q) /\ q.at = "judge" /\ q.op \in {"ban", "unban", "admin"}
                           /\ q.row \in AccountRows /\ (q.op = "ban" => q.row.banned)
                           /\ (q.id \in Locals => q.row.name \in Names)
  BY JobFacts DEF WriteJudged, On, JobSound
<1>2. PICK i \in Ids : i = q.id
  BY <1>1 DEF JobSound
<1>3. PICK c \in JobRecs : /\ Set(j, c) /\ (q.op # "ban" => c = Free)
                           /\ q.op = "ban" => /\ c.at = "clean" /\ c.id = q.id /\ c.op = q.op /\ c.code = q.code
                                              /\ c.name = q.name /\ c.row = q.row
  <2>1. CASE q.op = "ban"
    BY <1>1, <2>1, GoesTo DEF WriteJudged, JobStages
  <2>2. CASE q.op # "ban"
    BY <1>1, <2>2, GoesTo DEF WriteJudged, JobStages
  <2> QED
    BY <2>1, <2>2
<1>4. /\ UNCHANGED <<listedUsers, nameIndex, robbed, broken, overlap, session, sessionIdx, invite, openInvites,
                      copies, admitted>>
      /\ account' = [account EXCEPT ![i] = q.row]
  BY <1>1, <1>2 DEF WriteJudged, Sessions, Invites, History
<1>5. JobSound(c) /\ (q.op = "ban" <=> c # Free)
  BY <1>1, <1>2, <1>3, FreeIs DEF JobSound
<1>6. /\ Going(j, i, c) /\ starts' \in 0..MaxStarts
      /\ DOMAIN job' = Jobs /\ \A m \in Jobs : JobSound(job'[m])
  BY <1>1, <1>2, <1>3, <1>4, <1>5, FreeIs, Proceeds
<1>7. AccountTypes /\ NamesRight
  BY DEF AccountInv
<1>8. \A k \in Ids : account'[k] = IF k = i THEN q.row ELSE account[k]
  BY <1>4, <1>7 DEF AccountTypes
<1>9. AccountTypes'
  <2>1. account' \in [Ids -> AccountRows \cup {No}]
    BY <1>1, <1>4, <1>7 DEF AccountTypes
  <2>2. \A k \in Locals : account'[k] # No => account'[k].name \in Names
    BY <1>1, <1>2, <1>7, <1>8, NoIsNothing DEF AccountTypes
  <2> QED
    BY <1>4, <1>6, <1>7, <2>1, <2>2 DEF AccountTypes
<1>10. ~Presents(c) /\ c.at \notin {"claim", "row"} /\ ~Presents(job[j])
  BY <1>1, <1>3, FreeIs DEF Presents
<1>11. CodesRight'
  BY <1>4, <1>5, <1>6, <1>10, CodesLeft
<1>12. ASSUME NEW n \in Names, nameIndex'[n] = i, i \in Locals PROVE NamedBy(i, n)' /\ (c # Free => KnownBy(c, n))
  <2>1. KnownBy(q, n)
    BY <1>1, <1>2, <1>4, <1>7, <1>12 DEF NamesRight
  <2>2. account'[i] # No /\ account'[i].name = n
    BY <1>1, <1>8, <2>1, NoIsNothing DEF KnownBy
  <2>3. c # Free => KnownBy(c, n)
    BY <1>1, <1>3, <1>5 DEF KnownBy
  <2> QED
    BY <2>2, <2>3 DEF NamedBy
<1>13. ASSUME i \notin overlap' PROVE IF c = Free THEN Settled(i)' ELSE BroughtTo(c)'
  <2>1. BroughtTo(q)
    BY <1>1, <1>6, <1>13, Found
  <2>2. /\ Settled(i) /\ account[i] # No /\ q.row.name = account[i].name
        /\ q.op # "ban" /\ q.row.banned => i \notin session
    BY <1>1, <1>2, <2>1 DEF BroughtTo
  <2>3. Entered(i)' /\ Listed(i)'
    BY <1>1, <1>4, <1>8, <2>2, NoIsNothing DEF Settled, Entered, Leads, Listed, Admitted
  <2>4. CASE q.op = "ban"
    BY <1>1, <1>2, <1>3, <1>5, <2>3, <2>4 DEF BroughtTo
  <2>5. CASE q.op # "ban"
    <3>1. Settled(i)'
      BY <1>1, <1>4, <1>8, <2>2, <2>3, <2>5, NoIsNothing DEF Settled, Out
    <3> QED
      BY <1>5, <2>5, <3>1
  <2> QED
    BY <2>4, <2>5
<1>14. \A m \in Jobs \ {j} : job[m].id = i => job[m].at \notin {"claim", "row"}
  BY <1>1, <1>6, NoneUnwritten
<1>15. \A n \in Names : nameIndex'[n] = i => nameIndex[n] = i
  BY <1>4
<1>16. \A k \in Ids \ {i} : /\ account'[k] = account[k] /\ (k \in session' <=> k \in session)
                            /\ k \in sessionIdx' <=> k \in sessionIdx
  BY <1>4, <1>8
<1>17. /\ Holding(i) /\ copies'[i] # {}
       /\ \A n \in Names : nameIndex[n] = i /\ i \in Locals => \A r \in copies'[i] : r.name = n
  BY <1>1, <1>2, <1>4, SameCopies
<1> QED
  BY <1>4, <1>5, <1>6, <1>9, <1>10, <1>11, <1>12, <1>13, <1>14, <1>15, <1>16, <1>17, AccountMoved

LEMMA RegisterKeeps ==
    ASSUME AccountInv, NEW j \in Jobs, NEW i \in Locals, NEW n \in Names, NEW x \in Codes, Register(j, i, n, x)
    PROVE  AccountInv'
<1> DEFINE Asked(required) == required /\ ~Bootstrap
           Presented(required) == IF Asked(required) THEN x ELSE No
           Request(code) == [Free EXCEPT !.op = "register", !.at = "claim", !.id = i, !.name = n, !.code = code]
<1>1. PICK required \in InviteRequired :
        (Asked(required) => Pending(x)) /\ Start(j, Request(Presented(required)))
  BY DEF Register
<1>2. PICK code \in Codes \cup {No} : /\ code = Presented(required)
                                      /\ code # No => invite[code] # No
  BY <1>1 DEF Pending
<1>3. PICK c : c = Request(code)
  OBVIOUS
<1>4. i \in Ids /\ c \in JobRecs /\ c.op = "register" /\ c.at = "claim" /\ c.id = i /\ c.name = n /\ c.code = code
  BY <1>3, NoIsNothing DEF Free, JobRecs, JobOps, JobStages
<1>5. Start(j, c)
  BY <1>1, <1>2, <1>3
<1> HIDE DEF Presented, Request
<1>6. JobSound(c) /\ StartOn(j, account[c.id], c) /\ c # Free
  BY <1>4, <1>5, FreeIs, NoIsNothing DEF JobSound, Start
<1>7. /\ UNCHANGED <<account, listedUsers, nameIndex, session, sessionIdx, invite, openInvites, copies, admitted>>
      /\ copies[i] = {} /\ i \notin broken /\ \A k \in Jobs : job[k].id # i
  BY DEF Register, New, Busy, Users, Sessions, Invites
<1>8. account[i] = No
  BY <1>4, <1>7 DEF AccountInv, CopiesRight
<1>9. /\ Going(j, i, c) /\ starts' \in 0..MaxStarts /\ UNCHANGED <<robbed, broken>> /\ job[j].at = "end"
      /\ DOMAIN job' = Jobs /\ \A m \in Jobs : JobSound(job'[m])
  BY <1>4, <1>6, Begins
<1>10. AccountTypes'
  BY <1>7, <1>9 DEF AccountInv, AccountTypes
<1>11. CodesRight'
  BY <1>2, <1>4, <1>6, <1>7, <1>9, CodesKept DEF Presents
<1>12. \A m \in Names : nameIndex[m] # i
  BY <1>7, <1>8 DEF AccountInv, NamesRight, NamedBy
<1>13. ASSUME i \notin overlap' PROVE BroughtTo(c)'
  <2>1. Settled(i)
    BY <1>4, <1>9, <1>13, Found
  <2> QED
    BY <1>4, <1>7, <1>8, <1>9, <2>1 DEF BroughtTo, Settled, Entered, Leads, Listed, Out, Admitted
<1>14. Holding(i)
  BY <1>4, <1>7, SameCopies
<1> QED
  BY <1>4, <1>6, <1>7, <1>8, <1>9, <1>10, <1>11, <1>12, <1>13, <1>14, AccountMoved

LEMMA ClaimKeeps ==
    ASSUME AccountInv, NEW j \in Jobs, Claim(j)
    PROVE  AccountInv'
<1>1. PICK q \in JobRecs : /\ q = job[j] /\ JobSound(q) /\ q.at = "claim" /\ q.op = "register" /\ q.id \in Locals
                           /\ q.name \in Names
  BY JobFacts DEF Claim, On, JobSound
<1>2. PICK i \in Ids : i = q.id /\ i \in Locals
  BY <1>1, NoIsNothing
<1>3. PICK c \in JobRecs :
        /\ Set(j, c)
        /\ c.at # "end" => /\ c.at = "row" /\ c.id = i /\ c.op = q.op /\ c.code = q.code /\ c.name = q.name
                           /\ nameIndex[q.name] = No /\ nameIndex' = [nameIndex EXCEPT ![q.name] = i]
        /\ c.at = "end" => c = Free /\ nameIndex' = nameIndex
  <2>1. CASE NameFree(q.name)
    <3>1. PICK c : c = [q EXCEPT !.at = "row", !.flag = Bootstrap \/ {q.id, q.name} \cap AdminIds # {}]
      OBVIOUS
    <3>2. /\ c \in JobRecs /\ c.at = "row" /\ c.id = i /\ c.op = q.op /\ c.code = q.code /\ c.name = q.name
      BY <1>2, <3>1 DEF JobRecs, JobStages
    <3>3. Set(j, c) /\ nameIndex[q.name] = No /\ nameIndex' = [nameIndex EXCEPT ![q.name] = i]
      BY <1>1, <1>2, <2>1, <3>1 DEF Claim, NameFree
    <3> QED
      BY <3>2, <3>3
  <2>2. CASE ~NameFree(q.name)
    BY <1>1, <2>2, GoesTo, FreeIs DEF Claim, JobStages
  <2> QED
    BY <2>1, <2>2
<1>4. UNCHANGED <<account, listedUsers, session, sessionIdx, invite, openInvites, copies, admitted, overlap,
                  robbed, broken>>
  BY DEF Claim, Sessions, Invites, History
<1>5. JobSound(c) /\ (c = Free <=> c.at = "end")
  BY <1>1, <1>2, <1>3, FreeIs DEF JobSound
<1>6. /\ Going(j, i, c) /\ starts' \in 0..MaxStarts
      /\ DOMAIN job' = Jobs /\ \A m \in Jobs : JobSound(job'[m])
  BY <1>1, <1>2, <1>3, <1>4, <1>5, Proceeds
<1>7. AccountTypes /\ NamesRight /\ Unwritten(j)
  BY DEF AccountInv
<1>8. AccountTypes'
  BY <1>1, <1>3, <1>4, <1>5, <1>6, <1>7 DEF AccountTypes
<1>9. CodesRight'
  <2>1. Presents(c) => Presents(job[j])
    BY <1>1, <1>3 DEF Presents
  <2> QED
    BY <1>4, <1>5, <1>6, <2>1, CodesLeft
<1>10. account[i] = No /\ copies[i] = {} /\ i \notin broken /\ \A m \in Jobs \ {j} : job[m].id # i
  BY <1>1, <1>2, <1>7 DEF Unwritten
<1>11. ASSUME NEW n \in Names PROVE nameIndex[n] # i
  <2>1. ~NamedBy(i, n)
    BY <1>1, <1>10 DEF NamedBy
  <2> QED
    BY <1>2, <1>7, <2>1 DEF NamesRight
<1>12. \A n \in Names : /\ nameIndex'[n] # nameIndex[n] => nameIndex'[n] = i /\ nameIndex[n] = No
                        /\ nameIndex'[n] = i => c.at = "row" /\ n = q.name
  BY <1>3, <1>7, <1>11 DEF AccountTypes
<1>13. \A n \in Names : /\ nameIndex'[n] = nameIndex[n] \/ nameIndex'[n] \in {No, i}
                        /\ nameIndex'[n] = nameIndex[n] \/ nameIndex[n] \in {No, i}
  BY <1>12
<1>14. c.at = "row" => nameIndex'[q.name] = i
  BY <1>1, <1>3, <1>7 DEF AccountTypes
<1>15. ASSUME NEW n \in Names, nameIndex'[n] = i PROVE NamedBy(i, n)' /\ KnownBy(c, n)
  <2>1. c.at = "row" /\ n = q.name /\ c.id = i /\ c.name = n /\ c.op = "register"
    BY <1>1, <1>3, <1>12, <1>15
  <2>2. job'[j] = c
    BY <1>5, <1>6, GoingMoves
  <2> QED
    BY <2>1, <2>2 DEF NamedBy, KnownBy
<1>16. ASSUME i \notin overlap' PROVE IF c = Free THEN Settled(i)' ELSE BroughtTo(c)'
  <2>1. Settled(i)
    BY <1>1, <1>2, <1>6, <1>16, Found DEF BroughtTo
  <2>2. Settled(i)'
    BY <1>4, <1>10, <2>1 DEF Settled, Entered, Leads, Listed, Out
  <2> QED
    BY <1>3, <1>5, <2>2 DEF BroughtTo
<1>17. (c.at = "row" => c.name = q.name) /\ (c # Free => c.at = "row") /\ c.at # "judge"
  BY <1>3, <1>5
<1>18. Holding(i) /\ copies' = copies
  BY <1>4, SameCopies
<1> QED
  BY <1>2, <1>18, <1>3, <1>4, <1>5, <1>6, <1>8, <1>9, <1>10, <1>14, <1>15, <1>16, <1>13, <1>17, AccountMoved

LEMMA WriteLocalKeeps ==
    ASSUME AccountInv, NEW j \in Jobs, WriteLocal(j)
    PROVE  AccountInv'
<1>1. PICK q \in JobRecs : /\ q = job[j] /\ JobSound(q) /\ q.at = "row" /\ q.op = "register" /\ q.id \in Locals
                           /\ q.name \in Names
  BY JobFacts DEF WriteLocal, On, JobSound
<1>2. PICK i \in Ids : i = q.id /\ i \in Locals
  BY <1>1, NoIsNothing
<1>3. PICK c \in JobRecs :
        /\ Set(j, c) /\ c.at = IF q.code = No THEN "session" ELSE "take"
        /\ c.id = i /\ c.op = q.op /\ c.code = q.code /\ c.name = q.name
  <2>1. PICK at \in JobStages : at = IF q.code = No THEN "session" ELSE "take"
    BY DEF JobStages
  <2>2. Go(j, at)
    BY <1>1, <2>1 DEF WriteLocal
  <2> QED
    BY <1>1, <1>2, <2>1, <2>2, GoesTo
<1>4. PICK row \in AccountRows : row = Fresh(q.name, q.flag)
  BY <1>1 DEF JobRecs, Fresh, AccountRows, AccountInv, AccountTypes
<1>5. row.name = q.name /\ ~row.banned /\ row # No
  BY <1>4, NoIsNothing DEF Fresh
<1>6. /\ UNCHANGED <<nameIndex, session, sessionIdx, invite, openInvites, overlap, robbed, broken>>
      /\ account' = [account EXCEPT ![i] = row] /\ listedUsers' = listedUsers \cup {i} /\ Caches(i, row)
      /\ admitted' = [admitted EXCEPT ![No] = IF q.code = No THEN @ \cup {i} ELSE @]
  BY <1>1, <1>2, <1>4 DEF WriteLocal, Sessions, Invites
<1>7. JobSound(c) /\ c # Free
  BY <1>1, <1>2, <1>3, FreeIs DEF JobSound, JobRecs
<1>8. /\ Going(j, i, c) /\ starts' \in 0..MaxStarts
      /\ DOMAIN job' = Jobs /\ \A m \in Jobs : JobSound(job'[m])
  BY <1>1, <1>2, <1>3, <1>6, <1>7, FreeIs, Proceeds
<1>9. AccountTypes /\ NamesRight /\ ClaimsKept /\ Unwritten(j)
  BY DEF AccountInv
<1>10. /\ \A k \in Ids : account'[k] = IF k = i THEN row ELSE account[k]
       /\ \A k \in Codes \cup {No} : admitted[k] \subseteq admitted'[k] /\ (k # No => admitted'[k] = admitted[k])
       /\ q.code = No => i \in admitted'[No]
  BY <1>6, <1>9 DEF AccountTypes
<1>11. AccountTypes'
  <2>1. account' \in [Ids -> AccountRows \cup {No}] /\ admitted' \in [Codes \cup {No} -> SUBSET Ids]
    BY <1>6, <1>9 DEF AccountTypes
  <2>2. \A k \in Locals : account'[k] # No => account'[k].name \in Names
    BY <1>1, <1>5, <1>9, <1>10, NoIsNothing DEF AccountTypes
  <2> QED
    BY <1>6, <1>8, <1>9, <2>1, <2>2 DEF AccountTypes
<1>12. CodesRight'
  <2>1. (Presents(c) => Presents(job[j])) /\ (Presents(c) => c.code \in Codes)
    BY <1>1, <1>3, <1>7 DEF Presents, JobRecs
  <2> QED
    BY <1>6, <1>7, <1>8, <1>10, <2>1, NoIsNothing, CodesKept
<1>13. ASSUME NEW n \in Names, nameIndex'[n] = i PROVE NamedBy(i, n)' /\ KnownBy(c, n)
  <2>1. KnownBy(q, n)
    BY <1>1, <1>2, <1>6, <1>9, <1>13 DEF NamesRight
  <2>2. q.name = n
    BY <1>1, <2>1 DEF KnownBy
  <2> QED
    BY <1>1, <1>3, <1>5, <1>10, <2>2 DEF NamedBy, KnownBy
<1>14. \A m \in Jobs \ {j} : job[m].id # i
  BY <1>1, <1>2, <1>9 DEF Unwritten
<1>15. ASSUME i \notin overlap' PROVE BroughtTo(c)'
  <2>1. Settled(i)
    BY <1>1, <1>2, <1>8, <1>15, Found DEF BroughtTo
  <2>2. Leads(i)' /\ Listed(i)' /\ ~Out(i)'
    BY <1>1, <1>2, <1>5, <1>6, <1>9, <1>10, <2>1 DEF Settled, Leads, Listed, Out, ClaimsKept
  <2>3. q.code = No => Settled(i)'
    BY <1>10, <2>2 DEF Settled, Entered, Admitted
  <2> QED
    BY <1>3, <2>2, <2>3 DEF BroughtTo
<1>16. copies[i] = {}
  BY <1>1, <1>2, <1>9 DEF Unwritten
<1>17. Holding(i) /\ copies'[i] = {row}
  BY <1>1, <1>5, <1>6, <1>16, OneMore
<1>18. \A n \in Names : nameIndex'[n] = i => \A r \in copies'[i] : r.name = n
  <2> SUFFICES ASSUME NEW n \in Names, nameIndex'[n] = i PROVE row.name = n
    BY <1>17
  <2>1. KnownBy(q, n)
    BY <1>1, <1>2, <1>6, <1>9 DEF NamesRight
  <2> QED
    BY <1>1, <1>5, <2>1 DEF KnownBy
<1>19. broken \subseteq broken' /\ robbed \subseteq robbed' /\ c.at \notin {"claim", "row", "judge"}
  BY <1>3, <1>6
<1> QED
  BY <1>3, <1>6, <1>7, <1>8, <1>10, <1>11, <1>12, <1>13, <1>14, <1>15, <1>17, <1>18, <1>19, AccountMoved

LEMMA UpsertKeeps ==
    ASSUME AccountInv, NEW j \in Jobs, Upsert(j)
    PROVE  AccountInv'
<1>1. PICK q \in JobRecs : /\ q = job[j] /\ JobSound(q) /\ q.at = "upsert" /\ q.op = "oauth" /\ q.id \in Known
                           /\ q.row \in AccountRows
  BY JobFacts DEF Upsert, On, JobSound
<1>2. PICK i \in Ids : i = q.id /\ i \notin Locals
  BY <1>1, NoIsNothing
<1>3. PICK c \in JobRecs : /\ Set(j, c) /\ (q.row.banned => c = Free)
                           /\ ~q.row.banned => /\ c.at = "session" /\ c.id = i /\ c.op = q.op
  <2>1. PICK at \in JobStages : at = IF q.row.banned THEN "end" ELSE "session"
    BY DEF JobStages
  <2>2. Go(j, at)
    BY <1>1, <2>1 DEF Upsert
  <2> QED
    BY <1>1, <1>2, <2>1, <2>2, GoesTo
<1>4. PICK new \in [Names -> Ids \cup {No}] : nameIndex' = new /\ Reindex(i, new)
  <2>1. PICK new : new = [n \in Names |-> IF n \in q.seen THEN No
                                          ELSE IF q.flag /\ n = q.row.name THEN q.id ELSE nameIndex[n]]
    OBVIOUS
  <2>2. Reindex(i, new)
    BY <1>1, <1>2, <2>1 DEF Upsert
  <2>3. new \in [Names -> Ids \cup {No}]
    BY <1>2, <2>1 DEF AccountInv, AccountTypes
  <2> QED
    BY <2>2, <2>3 DEF Reindex
<1>5. \A n \in Names : nameIndex'[n] = nameIndex[n] \/ nameIndex'[n] \in {No, i}
  BY <1>1, <1>2 DEF Upsert, Reindex
<1>6. /\ UNCHANGED <<session, sessionIdx, invite, openInvites, admitted, overlap, broken>>
      /\ account' = [account EXCEPT ![i] = q.row] /\ listedUsers' = listedUsers \cup {i} /\ Caches(i, q.row)
  BY <1>1, <1>2 DEF Upsert, Reindex, Sessions, Invites
<1>7. JobSound(c) /\ (c # Free => c.at = "session" /\ c.id = i /\ c.op = q.op)
  BY <1>1, <1>2, <1>3, FreeIs DEF JobSound
<1>8. /\ Going(j, i, c) /\ starts' \in 0..MaxStarts
      /\ DOMAIN job' = Jobs /\ \A m \in Jobs : JobSound(job'[m])
  BY <1>1, <1>2, <1>6, <1>7, <1>3, Proceeds
<1>9. AccountTypes
  BY DEF AccountInv
<1>10. \A k \in Ids : account'[k] = IF k = i THEN q.row ELSE account[k]
  BY <1>6, <1>9 DEF AccountTypes
<1>11. AccountTypes'
  <2>1. account' \in [Ids -> AccountRows \cup {No}]
    BY <1>1, <1>6, <1>9 DEF AccountTypes
  <2>2. \A k \in Locals : account'[k] # No => account'[k].name \in Names
    BY <1>2, <1>9, <1>10, NoIsNothing DEF AccountTypes
  <2> QED
    BY <1>4, <1>6, <1>8, <1>9, <2>1, <2>2 DEF AccountTypes
<1>12. CodesRight'
  BY <1>1, <1>6, <1>7, <1>8, FreeIs, CodesLeft DEF Presents
<1>13. /\ robbed \subseteq robbed'
       /\ \A n \in Names : nameIndex'[n] = nameIndex[n] \/ nameIndex[n] \in {No, i} \/ nameIndex[n] \in robbed'
  <2>1. robbed' = robbed \cup {k \in Ids \ {i} : \E n \in Names : nameIndex[n] = k /\ nameIndex'[n] # k}
    BY <1>4 DEF Reindex
  <2>2. ASSUME NEW n \in Names, nameIndex'[n] # nameIndex[n], nameIndex[n] \notin {No, i}
        PROVE  nameIndex[n] \in robbed'
    BY <1>9, <2>1, <2>2 DEF AccountTypes
  <2> QED
    BY <2>1, <2>2
<1>14. ASSUME i \notin overlap' PROVE IF c = Free THEN Settled(i)' ELSE BroughtTo(c)'
  <2>1. Settled(i) /\ (q.row.banned => i \notin session)
    BY <1>1, <1>2, <1>8, <1>14, Found DEF BroughtTo
  <2>2. Settled(i)'
    BY <1>1, <1>2, <1>6, <1>10, <2>1, NoIsNothing DEF Settled, Entered, Leads, Listed, Out
  <2> QED
    BY <1>1, <1>2, <1>3, <1>7, <1>10, <2>2, NoIsNothing, FreeIs DEF BroughtTo, Out
<1>15. \A m \in Jobs \ {j} : job[m].id = i => job[m].at \notin {"claim", "row"}
  BY <1>1, <1>8, NoneUnwritten
<1>16. c.at \notin {"claim", "row"}
  BY <1>7, FreeIs
<1>17. Holding(i) /\ copies'[i] # {}
  BY <1>1, <1>2, <1>6, OneMore
<1> QED
  BY <1>2, <1>17, <1>5, <1>6, <1>7, <1>8, <1>10, <1>11, <1>12, <1>13, <1>14, <1>15, <1>16, AccountMoved

LEMMA DropKeeps ==
    ASSUME AccountInv, NEW j \in Jobs, Drop(j)
    PROVE  AccountInv'
<1>1. PICK q \in JobRecs : /\ q = job[j] /\ JobSound(q) /\ q.at = "drop" /\ q.op \in {"register", "delete", "ban"}
                           /\ (q.op = "ban" => q.name = No)
  BY JobFacts DEF Drop, On, JobSound
<1>2. PICK i \in Ids : i = q.id
  BY <1>1 DEF JobSound
<1>3. PICK c \in JobRecs : /\ Set(j, c) /\ (q.op = "ban" => c = Free)
                           /\ q.op # "ban" => c.at = "erase" /\ c.id = i /\ c.op = q.op /\ c.code = q.code
  <2>1. PICK at \in JobStages : at = IF q.op = "ban" THEN "end" ELSE "erase"
    BY DEF JobStages
  <2>2. Go(j, at)
    BY <1>1, <2>1 DEF Drop
  <2> QED
    BY <1>1, <1>2, <2>1, <2>2, GoesTo
<1>4. PICK new \in [Names -> Ids \cup {No}] :
        /\ nameIndex' = new /\ Reindex(i, new) /\ \A n \in Names : new[n] = IF n = q.name THEN No ELSE nameIndex[n]
  <2>1. PICK new : new = [n \in Names |-> IF n = q.name THEN No ELSE nameIndex[n]]
    OBVIOUS
  <2>2. Reindex(i, new)
    BY <1>1, <1>2, <2>1 DEF Drop
  <2>3. new \in [Names -> Ids \cup {No}]
    BY <2>1 DEF AccountInv, AccountTypes
  <2> QED
    BY <2>1, <2>2, <2>3 DEF Reindex
<1>5. /\ UNCHANGED <<account, invite, openInvites, copies, admitted, overlap, broken>>
      /\ session' = IF q.flag THEN session \ {i} ELSE session
      /\ sessionIdx' = sessionIdx \ {i}
      /\ listedUsers' \subseteq listedUsers
  BY <1>1, <1>2 DEF Drop, Reindex, Invites
<1>6. JobSound(c) /\ (c = Free <=> q.op = "ban")
  BY <1>1, <1>2, <1>3, FreeIs DEF JobSound
<1>7. /\ Going(j, i, c) /\ starts' \in 0..MaxStarts
      /\ DOMAIN job' = Jobs /\ \A m \in Jobs : JobSound(job'[m])
  BY <1>1, <1>2, <1>3, <1>5, <1>6, FreeIs, Proceeds
<1>8. AccountTypes /\ NamesRight
  BY DEF AccountInv
<1>9. AccountTypes'
  BY <1>4, <1>5, <1>7, <1>8 DEF AccountTypes
<1>10. ~Presents(c) /\ c.at \notin {"claim", "row"}
  BY <1>3, FreeIs DEF Presents
<1>11. CodesRight'
  BY <1>5, <1>6, <1>7, <1>10, CodesLeft
<1>12. /\ robbed \subseteq robbed'
       /\ \A n \in Names : nameIndex'[n] = nameIndex[n] \/ nameIndex[n] \in {No, i} \/ nameIndex[n] \in robbed'
  <2>1. robbed' = robbed \cup {k \in Ids \ {i} : \E n \in Names : nameIndex[n] = k /\ nameIndex'[n] # k}
    BY <1>4 DEF Reindex
  <2> QED
    BY <1>8, <2>1 DEF AccountTypes
<1>13. \A m \in Jobs \ {j} : job[m].id = i => job[m].at \notin {"claim", "row"}
  BY <1>1, <1>7, NoneUnwritten
<1>14. ASSUME NEW n \in Names, nameIndex'[n] = i, i \in Locals
       PROVE  NamedBy(i, n)' /\ c = Free /\ nameIndex[n] = i
  <2>1. nameIndex[n] = i /\ n # q.name
    BY <1>4, <1>14, NoIsNothing
  <2>2. KnownBy(q, n) /\ NamedBy(i, n)
    BY <1>1, <1>2, <1>8, <1>14, <2>1 DEF NamesRight
  <2>3. c = Free
    BY <1>1, <1>6, <2>1, <2>2 DEF KnownBy
  <2>4. i \in broken \/ (account[i] # No /\ account[i].name = n)
    BY <1>1, <1>13, <2>2 DEF NamedBy
  <2> QED
    BY <1>5, <2>1, <2>3, <2>4 DEF NamedBy
<1>15. ASSUME i \notin overlap' PROVE IF c = Free THEN Settled(i)' ELSE BroughtTo(c)'
  <2>1. /\ i \in session => q.flag
        /\ q.op = "ban" => Entered(i)
    BY <1>1, <1>2, <1>7, <1>15, Found DEF BroughtTo
  <2>2. i \notin session'
    BY <1>5, <2>1
  <2>3. CASE c = Free
    <3>1. Entered(i) /\ q.name = No
      BY <1>1, <1>6, <2>1, <2>3
    <3>2. Entered(i)'
      BY <1>4, <1>5, <1>8, <1>12, <3>1, NoIsNothing DEF Entered, Leads, Admitted, AccountTypes
    <3> QED
      BY <2>2, <2>3, <3>2 DEF Settled, Listed
  <2>4. CASE c # Free
    BY <1>3, <1>6, <2>2, <2>4 DEF BroughtTo
  <2> QED
    BY <2>3, <2>4
<1>16. \A n \in Names : nameIndex'[n] = nameIndex[n] \/ nameIndex'[n] \in {No, i}
  BY <1>4
<1>17. \A k \in Ids \ {i} : /\ account'[k] = account[k] /\ (k \in session' <=> k \in session)
                            /\ k \in sessionIdx' <=> k \in sessionIdx
  BY <1>5
<1>18. /\ Holding(i) /\ (account[i] # No => copies'[i] # {}) /\ c.at # "judge"
       /\ \A n \in Names : nameIndex[n] = i /\ i \in Locals => \A r \in copies'[i] : r.name = n
  BY <1>3, <1>5, FreeIs, SameCopies
<1> QED
  BY <1>5, <1>6, <1>7, <1>9, <1>10, <1>11, <1>12, <1>13, <1>14, <1>15, <1>16, <1>17, <1>18, AccountMoved

LEMMA EraseAccountKeeps ==
    ASSUME AccountInv, NEW j \in Jobs, Erase(j)
    PROVE  AccountInv'
<1>1. PICK q \in JobRecs : q = job[j] /\ JobSound(q) /\ q.at = "erase"
  BY JobFacts DEF Erase, On
<1>2. PICK i \in Ids : i = q.id
  BY <1>1 DEF JobSound
<1>3. Set(j, Free)
  BY GoesTo DEF Erase, JobStages
<1>4. /\ UNCHANGED <<listedUsers, nameIndex, session, copies, admitted, overlap, robbed, broken>>
      /\ account' = [account EXCEPT ![i] = No] /\ sessionIdx' = sessionIdx \ {i}
      /\ openInvites' = [openInvites EXCEPT ![i] = {}]
      /\ invite' = [c \in Codes |-> IF c \in q.seen THEN No ELSE invite[c]]
  BY <1>1, <1>2 DEF Erase, History
<1>5. /\ Going(j, i, Free) /\ starts' \in 0..MaxStarts
      /\ DOMAIN job' = Jobs /\ \A m \in Jobs : JobSound(job'[m])
  BY <1>1, <1>2, <1>3, <1>4, FreeIs, Proceeds
<1>6. AccountTypes /\ NamesRight
  BY DEF AccountInv
<1>7. AccountTypes'
  BY <1>4, <1>5, <1>6, NoIsNothing DEF AccountTypes
<1>8. \A k \in Ids : account'[k] = IF k = i THEN No ELSE account[k]
  BY <1>4, <1>6 DEF AccountTypes
<1>9. CodesRight'
  BY <1>4, <1>5, FreeIs, CodesKept DEF Presents
<1>10. \A n \in Names : nameIndex[n] = i => i \notin Locals
  <2>1. \A n \in Names : ~KnownBy(q, n)
    BY <1>1 DEF KnownBy
  <2> QED
    BY <1>1, <1>2, <1>6, <2>1 DEF NamesRight
<1>11. \A m \in Jobs \ {j} : job[m].id = i => job[m].at \notin {"claim", "row"}
  BY <1>1, <1>5, NoneUnwritten
<1>12. ASSUME i \notin overlap' PROVE Settled(i)'
  <2>1. i \notin session
    BY <1>1, <1>2, <1>5, <1>12, Found DEF BroughtTo
  <2> QED
    BY <1>4, <1>8, <2>1 DEF Settled, Entered, Leads, Listed
<1>13. Holding(i) /\ account'[i] = No
  BY <1>4, <1>8, SameCopies
<1> QED
  BY <1>4, <1>5, <1>7, <1>8, <1>9, <1>10, <1>11, <1>12, <1>13, FreeIs, AccountMoved

LEMMA BreaksKeeps ==
    ASSUME AccountInv, NEW j \in Jobs, Breaks(j)
    PROVE  AccountInv'
<1>1. PICK i \in Ids : i = job[j].id /\ job[j].at # "end"
  BY JobFacts DEF Breaks
<1>2. Set(j, Free)
  BY GoesTo DEF Breaks, JobStages
<1>3. /\ UNCHANGED <<account, listedUsers, nameIndex, session, sessionIdx, invite, openInvites, copies, admitted,
                      robbed>>
      /\ overlap' = overlap \cup {i} /\ broken' = broken \cup {i}
  BY <1>1 DEF Breaks, Users, Sessions, Invites
<1>4. Going(j, i, Free) /\ UNCHANGED starts
  BY <1>1, <1>2, <1>3 DEF Set, Going
<1>5. AccountTypes'
  <2>1. DOMAIN job' = Jobs /\ \A m \in Jobs : JobSound(job'[m])
    BY <1>4, GoingMoves, JobFacts, FreeIs
  <2> QED
    BY <1>3, <1>4, <2>1 DEF AccountInv, AccountTypes
<1>6. CodesRight'
  BY <1>3, <1>4, FreeIs, CodesKept DEF Presents
<1>7. /\ Holding(i) /\ (account[i] # No => copies'[i] # {})
      /\ \A n \in Names : nameIndex[n] = i /\ i \in Locals => \A r \in copies'[i] : r.name = n
  BY <1>3, SameCopies
<1>8. ASSUME NEW m \in Jobs \ {j}, job[m].id = i PROVE job[m].at \notin {"claim", "row"}
  BY <1>1, <1>8 DEF AccountInv, Unwritten
<1>9. \A n \in Names : NamedBy(i, n)'
  BY <1>3 DEF NamedBy
<1> QED
  BY <1>3, <1>4, <1>5, <1>6, <1>7, <1>8, <1>9, FreeIs, AccountMoved

-----------------------------------------------------------------------------
(* Steps of no request                                                     *)

\* Sessions end and codes go.
LEMMA StillKeeps ==
    ASSUME AccountInv, UNCHANGED <<account, listedUsers, nameIndex, job, starts, admitted, overlap,
           robbed, broken, copies>>,
           session' \subseteq session, sessionIdx' \subseteq Ids,
           \A k \in session' : k \in sessionIdx => k \in sessionIdx',
           invite' \in [Codes -> Ids \cup {No}], \A x \in Codes : invite'[x] \in {invite[x], No},
           openInvites' \in [Ids -> SUBSET Codes]
    PROVE  AccountInv'
<1>1. AccountTypes'
  BY DEF AccountInv, AccountTypes
<1>2. CopiesRight' /\ Apart' /\ NamesRight' /\ ClaimsKept' /\ \A j \in Jobs : Unwritten(j)'
  BY DEF AccountInv, CopiesRight, Apart, NamesRight, NamedBy, KnownBy, ClaimsKept, Unwritten
<1>3. CodesRight'
  BY DEF AccountInv, CodesRight, Presents
<1>4. ASSUME NEW i \in Ids \ overlap, \A j \in Jobs : job[j].id # i PROVE Settled(i)'
  <2>1. Settled(i)
    BY <1>4 DEF AccountInv
  <2> QED
    BY <2>1 DEF Settled, Entered, Leads, Listed, Out, Admitted
<1>5. ASSUME NEW j \in Jobs, NEW q \in JobRecs, q = job[j], q.at # "end", q.id \notin overlap
      PROVE  BroughtTo(q)'
  <2>1. BroughtTo(q)
    BY <1>5 DEF AccountInv
  <2>2. /\ Settled(q.id) => Settled(q.id)'
        /\ Entered(q.id) <=> Entered(q.id)'
        /\ Leads(q.id) <=> Leads(q.id)'
        /\ Listed(q.id) => Listed(q.id)'
        /\ Out(q.id) <=> Out(q.id)'
        /\ q.id \in session' => q.id \in session
    BY DEF Settled, Entered, Leads, Listed, Out, Admitted
  <2> QED
    BY <2>1, <2>2 DEF BroughtTo
<1> QED
  BY <1>1, <1>2, <1>3, <1>4, <1>5 DEF AccountInv

LEMMA EndSessionKeeps ==
    ASSUME AccountInv, NEW i \in Ids, EndSession(i)
    PROVE  AccountInv'
<1>1. AccountTypes
  BY DEF AccountInv
<1>2. /\ UNCHANGED <<account, listedUsers, nameIndex, invite, openInvites, job, starts, admitted, overlap, robbed,
                  broken, copies>>
      /\ session' = session \ {i} /\ sessionIdx' = sessionIdx \ {i}
  BY DEF EndSession, Users, Invites, History
<1> QED
  BY <1>1, <1>2, StillKeeps DEF AccountTypes

LEMMA CodeGoesKeeps ==
    ASSUME AccountInv, NEW x \in Codes, Expire(x) \/ \E i \in Ids : Revoke(i, x)
    PROVE  AccountInv'
<1>1. AccountTypes
  BY DEF AccountInv
<1>2. UNCHANGED <<account, listedUsers, nameIndex, session, sessionIdx, job, starts, admitted, overlap, robbed,
                  broken, copies>>
  BY DEF Revoke, Expire, Users, Sessions, History
<1>3. invite' = [invite EXCEPT ![x] = No]
  BY DEF Revoke, Expire
<1>4. openInvites' \in [Ids -> SUBSET Codes]
  BY <1>1 DEF Revoke, Expire, AccountTypes
<1>5. invite' \in [Codes -> Ids \cup {No}] /\ \A y \in Codes : invite'[y] \in {invite[y], No}
  BY <1>1, <1>3 DEF AccountTypes
<1> QED
  BY <1>1, <1>2, <1>4, <1>5, StillKeeps DEF AccountTypes

LEMMA ListInvitesKeeps ==
    ASSUME AccountInv, NEW i \in Ids, ListInvites(i)
    PROVE  AccountInv'
<1>1. AccountTypes
  BY DEF AccountInv
<1>2. UNCHANGED <<account, listedUsers, nameIndex, session, sessionIdx, invite, job, starts, admitted, overlap, robbed,
                  broken, copies>>
  BY DEF ListInvites, Users, Sessions, History
<1>3. openInvites' \in [Ids -> SUBSET Codes]
  BY <1>1 DEF ListInvites, AccountTypes
<1> QED
  BY <1>1, <1>2, <1>3, StillKeeps DEF AccountTypes

-----------------------------------------------------------------------------
LEMMA AccountBegins == AccountInit => AccountInv
<1> SUFFICES ASSUME AccountInit PROVE AccountInv
  OBVIOUS
<1>1. PICK founded \in BOOLEAN, n \in Names, c \in Codes :
        LET of == IF founded THEN {Founder} ELSE {} IN
        /\ account = [i \in Ids |-> IF i \in of THEN Fresh(n, TRUE) ELSE No]
        /\ listedUsers = of
        /\ nameIndex = [m \in Names |-> IF founded /\ m = n THEN Founder ELSE No]
        /\ session = of /\ sessionIdx = of
        /\ invite = [d \in Codes |-> IF founded /\ d = c THEN Founder ELSE No]
        /\ openInvites = [i \in Ids |-> IF i \in of THEN {c} ELSE {}]
        /\ job = [j \in Jobs |-> Free]
        /\ starts = 0
        /\ admitted = [d \in Codes \cup {No} |-> IF d = No THEN of ELSE {}]
        /\ copies = [i \in Ids |-> {account[i]} \ {No}]
        /\ overlap = {} /\ robbed = {} /\ broken = {}
  BY DEF AccountInit
<1> DEFINE of == IF founded THEN {Founder} ELSE {}
<1>2. /\ account = [i \in Ids |-> IF i \in of THEN Fresh(n, TRUE) ELSE No]
      /\ listedUsers = of
      /\ nameIndex = [m \in Names |-> IF founded /\ m = n THEN Founder ELSE No]
      /\ session = of /\ sessionIdx = of
      /\ invite = [d \in Codes |-> IF founded /\ d = c THEN Founder ELSE No]
      /\ openInvites = [i \in Ids |-> IF i \in of THEN {c} ELSE {}]
      /\ job = [j \in Jobs |-> Free]
      /\ starts = 0
      /\ admitted = [d \in Codes \cup {No} |-> IF d = No THEN of ELSE {}]
      /\ copies = [i \in Ids |-> {account[i]} \ {No}]
      /\ overlap = {} /\ robbed = {} /\ broken = {}
  BY <1>1
<1>3. of \subseteq {Founder} /\ (founded <=> Founder \in of)
  OBVIOUS
<1> HIDE DEF of
<1>4. PICK row \in AccountRows : row = Fresh(n, TRUE) /\ row.name = n /\ ~row.banned /\ row # No
  <2>1. Fresh(n, TRUE) \in AccountRows
    BY NoIsNothing DEF Fresh, AccountRows
  <2> QED
    BY <2>1, NoIsNothing DEF Fresh
<1>5. AccountTypes
  <2>1. /\ account \in [Ids -> AccountRows \cup {No}]
        /\ \A i \in Locals : account[i] # No => account[i].name \in Names
    BY <1>2, <1>4, NoIsNothing
  <2>2. nameIndex \in [Names -> Ids \cup {No}] /\ invite \in [Codes -> Ids \cup {No}]
    BY <1>2, NoIsNothing
  <2>3. openInvites \in [Ids -> SUBSET Codes] /\ admitted \in [Codes \cup {No} -> SUBSET Ids]
    BY <1>2, <1>3, NoIsNothing
  <2>4. starts \in 0..MaxStarts /\ listedUsers \subseteq Ids /\ session \subseteq Ids /\ sessionIdx \subseteq Ids
    BY <1>2, <1>3, NoIsNothing
  <2>5. DOMAIN job = Jobs /\ \A j \in Jobs : JobSound(job[j])
    BY <1>2, FreeIs
  <2> QED
    BY <2>1, <2>2, <2>3, <2>4, <2>5 DEF AccountTypes
<1>6. Apart /\ CodesRight /\ ClaimsKept /\ \A j \in Jobs : Unwritten(j)
  BY <1>2, <1>3, FreeIs, NoIsNothing DEF Apart, CodesRight, ClaimsKept, Unwritten, Presents
<1>7. NamesRight
  <2> SUFFICES ASSUME NEW m \in Names, NEW i \in Locals, nameIndex[m] = i
               PROVE  /\ NamedBy(i, m) /\ \A r \in copies[i] : r.name = m
                      /\ \A j \in Jobs, q \in JobRecs : q = job[j] /\ q.id = i => KnownBy(q, m)
    BY DEF NamesRight
  <2>1. founded /\ m = n /\ i = Founder
    BY <1>2, <1>3, NoIsNothing
  <2>2. account[i] = row
    BY <1>2, <1>3, <1>4, <2>1, NoIsNothing
  <2>3. \A j \in Jobs : job[j].id # i
    BY <1>2, <1>3, <2>1, FreeIs, NoIsNothing
  <2>4. \A r \in copies[i] : r = row
    BY <1>2, <2>2, NoIsNothing
  <2> QED
    BY <1>4, <2>1, <2>2, <2>3, <2>4 DEF NamedBy
<1>8. ASSUME NEW i \in Ids PROVE Settled(i)
  <2>1. CASE i \in of
    <3>1. account[i] = row /\ i = Founder /\ founded
      BY <1>2, <1>3, <1>4, <2>1
    <3>2. nameIndex[n] = i /\ Admitted(i)
      BY <1>2, <1>3, <2>1, <3>1 DEF Admitted
    <3> QED
      BY <1>2, <1>3, <1>4, <2>1, <3>1, <3>2 DEF Settled, Entered, Leads, Listed, Out
  <2>2. CASE i \notin of
    BY <1>2, <1>3, <2>2 DEF Settled, Entered, Leads, Listed, Out
  <2> QED
    BY <2>1, <2>2
<1>9. \A j \in Jobs : job[j].at = "end"
  BY <1>2, <1>3, FreeIs
<1>10. CopiesRight
  <2>1. \A i \in Ids : copies[i] = {account[i]} \ {No}
    BY <1>2
  <2>2. \A i \in Ids : account[i] \in AccountRows \cup {No}
    BY <1>5 DEF AccountTypes
  <2>3. copies \in [Ids -> SUBSET AccountRows]
    <3>1. \A i \in Ids : {account[i]} \ {No} \subseteq AccountRows
      BY <2>2
    <3> QED
      BY <1>2, <3>1
  <2>4. \A i \in Ids : account[i] # No => copies[i] # {}
    BY <2>1
  <2>5. \A i \in Locals : \A r \in copies[i] : r.name \in Names
    BY <1>5, <2>1, NoIsNothing DEF AccountTypes
  <2> QED
    BY <1>9, <2>3, <2>4, <2>5 DEF CopiesRight
<1> QED
  BY <1>5, <1>6, <1>7, <1>8, <1>9, <1>10 DEF AccountInv

LEMMA AccountContinues ==
    ASSUME AccountInv, NEW j \in Jobs, Continue(j)
    PROVE  AccountInv'
BY ClaimKeeps, WriteLocalKeeps, TakeCodeKeeps, BurnKeeps, OpenSessionKeeps, IndexSessionKeeps, ResolveKeeps,
   LookAgainKeeps, UpsertKeeps, WriteJudgedKeeps, CleanKeeps, DropKeeps, EraseAccountKeeps, ListCodeKeeps,
   NewCodeKeeps, BreaksKeeps
   DEF Continue

LEMMA AccountKeeps == AccountInv /\ [AccountNext]_accountVars => AccountInv'
<1> SUFFICES ASSUME AccountInv, [AccountNext]_accountVars PROVE AccountInv'
  OBVIOUS
<1>1. ASSUME NEW j \in Jobs, Continue(j) PROVE AccountInv'
  BY <1>1, AccountContinues
<1>2. ASSUME NEW j \in Jobs, NEW i \in Locals, NEW n \in Names, NEW c \in Codes, Register(j, i, n, c)
      PROVE  AccountInv'
  BY <1>2, RegisterKeeps
<1>3. ASSUME NEW j \in Jobs, NEW n \in Names, Login(j, n) PROVE AccountInv'
  BY <1>3, LoginKeeps
<1>4. ASSUME NEW j \in Jobs, NEW i \in Known, NEW n \in Names, OAuth(j, i, n) PROVE AccountInv'
  BY <1>4, OAuthKeeps
<1>5. ASSUME NEW j \in Jobs, NEW i \in Ids,
             \/ \E op \in {"ban", "unban", "admin"} : Judge(j, i, op)
             \/ Delete(j, i) \/ Invite(j, i)
      PROVE  AccountInv'
  BY <1>5, JudgeKeeps, DeleteKeeps, InviteKeeps
<1>6. ASSUME NEW i \in Ids, EndSession(i) \/ ListInvites(i) PROVE AccountInv'
  BY <1>6, EndSessionKeeps, ListInvitesKeeps
<1>7. ASSUME NEW i \in Ids, NEW c \in Codes, Revoke(i, c) PROVE AccountInv'
  BY <1>7, CodeGoesKeeps
<1>8. ASSUME NEW c \in Codes, Expire(c) PROVE AccountInv'
  BY <1>8, CodeGoesKeeps
<1>9. CASE UNCHANGED accountVars
  <2>1. AccountTypes
    BY DEF AccountInv
  <2>2. UNCHANGED <<account, listedUsers, nameIndex, session, sessionIdx, invite, openInvites, job, starts,
                    admitted, overlap, robbed, broken, copies>>
    BY <1>9 DEF accountVars
  <2> QED
    BY <2>1, <2>2, StillKeeps DEF AccountTypes
<1> QED
  BY <1>1, <1>2, <1>3, <1>4, <1>5, <1>6, <1>7, <1>8, <1>9 DEF AccountNext

\* What TLC checks follows from it.
LEMMA AccountsWell == AccountInv => AccountsKept
<1> SUFFICES ASSUME AccountInv PROVE AccountsKept
  OBVIOUS
<1>1. \A i \in Ids \ overlap : ~Busy(i) => Settled(i)
  BY DEF AccountInv, Busy
<1>2. Locals \subseteq Ids
  BY NoIsNothing
<1>3. ASSUME NEW c \in Codes \ overlap PROVE Cardinality(admitted[c]) <= 1
  <2>1. \A x, y \in admitted[c] : x = y
    BY <1>3 DEF AccountInv, CodesRight
  <2>2. CASE admitted[c] = {}
    BY <2>2, FS_EmptySet
  <2>3. CASE admitted[c] # {}
    <3>1. PICK x : x \in admitted[c]
      BY <2>3
    <3>2. admitted[c] = {x}
      BY <2>1, <3>1
    <3>3. Cardinality({x}) = 1
      BY FS_Singleton
    <3> QED
      BY <3>2, <3>3
  <2> QED
    BY <2>2, <2>3
<1>4. ASSUME NEW n \in Names, nameIndex[n] \in Locals \ broken
      PROVE  Busy(nameIndex[n]) \/ account[nameIndex[n]] # No
  BY <1>4 DEF AccountInv, NamesRight, NamedBy, Busy
<1>5. ASSUME NEW i \in Locals \ overlap, account[i] # No, ~Busy(i)
      PROVE  /\ \E c \in Codes \cup {No} : i \in admitted[c]
             /\ i \notin robbed => nameIndex[account[i].name] = i
  <2>1. Settled(i)
    BY <1>1, <1>2, <1>5
  <2> QED
    BY <1>5, <2>1 DEF Settled, Entered, Leads, Admitted
<1>6. ASSUME NEW i \in Ids \ overlap, account[i] = No \/ account[i].banned, ~Busy(i) PROVE i \notin session
  BY <1>1, <1>6 DEF Settled, Out
<1>7. LetInByCode
  BY <1>3, <1>4, <1>5, <1>6 DEF LetInByCode
<1>8. NamesLead
  BY <1>5 DEF NamesLead
<1> QED
  BY <1>7, <1>8 DEF AccountsKept

LEMMA AccountTypesWell == AccountInv => AccountTypeOK
BY DEF AccountInv, AccountTypes, CopiesRight, AccountTypeOK

(* Every local account was let in by a code, once, or where none was asked  *)
(* for, and its name leads to it until another's request takes that name; a *)
(* refused registration leaves nothing behind, and who is banned or deleted *)
(* has no session: whatever the interleaving of the requests of routes.ts   *)
(* and invite-repos.ts and wherever they break off, for accounts that no    *)
(* two requests were at together, none left unfinished and none judged or   *)
(* let in on an outdated copy of its row.                                   *)
THEOREM AccountsCorrect == AccountSpec => [](AccountTypeOK /\ AccountsKept)
<1>1. AccountInv => AccountTypeOK /\ AccountsKept
  BY AccountsWell, AccountTypesWell
<1> QED
  BY AccountBegins, AccountKeeps, <1>1, PTL DEF AccountSpec
====
