------------------------------ MODULE Personas ------------------------------
(***************************************************************************)
(* Personas: the square, published versions, forks, the default persona,   *)
(* libraries and assignments (repos.ts, "Personas / Square", and the       *)
(* persona routes of routes.ts).                                           *)
(*                                                                         *)
(* As for the stickers, a handler reads the whole row, changes its copy    *)
(* and writes it back after an await, and every await is a step.  What a   *)
(* persona says is in immutable versions; the row names the published one. *)
(* Names, texts, counters, slugs (set once, never moved) and the numbers   *)
(* of the versions are left out.                                           *)
(***************************************************************************)
EXTENDS Naturals, Sequences

CONSTANTS
    Owners,      \* people with an account
    Official,    \* the owner "system" of the personas made by administrators
    PersonaIds,  \* ids newId can return
    Graphs,      \* chatflow graphs
    Peers,       \* peers of the bots, to whom a persona may be assigned
    Calls,       \* requests in flight at the same time, on any node
    MaxCalls,    \* bound: requests started in all
    Nil

VARIABLES
    persona,       \* K.persona: the rows
    versions,      \* K.personaVersion, in the order written; an id is an index
    publicSet,     \* K.personasPublic
    library,       \* K.personaLib
    defaultPtr,    \* K.personaDefault
    assignment,    \* K.assignment
    call,          \* the requests under way
    calls,         \* requests started so far
    raced,         \* history: two requests were once under way together
    cut            \* history: a request once broke off between the square and the row

personaVars == <<persona, versions, publicSet, library, defaultPtr, assignment,
                 call, calls, raced, cut>>
Kept == <<persona, versions, publicSet, library, defaultPtr, assignment>>

PersonaRows == [owner : Owners \cup {Official}, visibility : {"public", "private"},
                enabled : BOOLEAN, isDefault : BOOLEAN, version : Nat \ {0}]

PersonaAssumption ==
    /\ Official \notin Owners /\ MaxCalls \in Nat
    /\ Nil \notin Owners \cup {Official} \cup PersonaIds \cup Graphs /\ Nil \notin PersonaRows

NoCall == [op |-> "none", at |-> "end", id |-> Nil, by |-> Nil, row |-> Nil,
           graph |-> Nil, source |-> Nil, sourceRow |-> Nil, publish |-> FALSE,
           read |-> Nil, version |-> 0]

Square(row) == row.enabled /\ row.visibility = "public"
Live(i) == i # Nil /\ persona[i] # Nil /\ persona[i].enabled

\* Faulty form: what is switched off is listed again when it is made public.
ListedByVisibility(i, row) ==
    IF row.visibility = "public" THEN publicSet \cup {i} ELSE publicSet \ {i}
Listed(i, row) == IF Square(row) THEN publicSet \cup {i} ELSE publicSet \ {i}

GraphOf(i) == versions[persona[i].version].graph
CanUse(u, i) ==
    /\ Live(i)
    /\ \/ persona[i].owner = u
       \/ persona[i].visibility = "public" /\ (persona[i].owner = Official \/ i \in library[u])
-----------------------------------------------------------------------------
Init ==
    /\ persona = [i \in PersonaIds |-> Nil]
    /\ versions = <<>>
    /\ publicSet = {}
    /\ library = [u \in Owners |-> {}]
    /\ defaultPtr = Nil
    /\ assignment = [p \in Peers |-> Nil]
    /\ call = [c \in Calls |-> NoCall]
    /\ calls = 0
    /\ raced = FALSE /\ cut = FALSE

Begin(c, with) ==
    /\ call[c] = NoCall /\ calls < MaxCalls
    /\ call' = [call EXCEPT ![c] = with]
    /\ calls' = calls + 1
    /\ raced' = (raced \/ \E d \in Calls : call[d] # NoCall)
    /\ UNCHANGED cut

Is(c, at) == call[c].at = at
Then(c, next) == /\ call' = [call EXCEPT ![c] = next]
                 /\ UNCHANGED <<calls, raced, cut>>
Step(c, at) == Then(c, IF at = "end" THEN NoCall ELSE [call[c] EXCEPT !.at = at])

\* What administrators make is public, and only they make a default at once.
MayCreate(u, visibility, isDefault) ==
    IF u = Official THEN visibility = "public" ELSE ~isDefault

NewPersona(u, visibility, isDefault) ==
    [owner |-> u, visibility |-> visibility, enabled |-> TRUE,
     isDefault |-> isDefault, version |-> 1]

\* newId does not return an id twice.
FreshId(i) == persona[i] = Nil /\ \A d \in Calls : call[d].id # i

(* POST of a persona: the old default is cleared before the new one is     *)
(* stored.                                                                 *)
Create(c, u, i, visibility, isDefault) ==
    /\ FreshId(i)
    /\ MayCreate(u, visibility, isDefault)
    /\ Begin(c, [NoCall EXCEPT !.op = "create", !.id = i, !.by = u,
                   !.at = IF isDefault THEN "pointed" ELSE "store",
                   !.row = NewPersona(u, visibility, isDefault)])
    /\ UNCHANGED Kept

(* The pipeline of createPersona: the first version, row and indexes.      *)
Store(c) ==
    LET q == call[c]
        row == [q.row EXCEPT !.version = Len(versions) + 1] IN
    /\ Is(c, "store")
    /\ versions' = Append(versions, [persona |-> q.id, graph |-> Nil])
    /\ persona' = [persona EXCEPT ![q.id] = row]
    /\ publicSet' = Listed(q.id, row)
    /\ library' = [u \in Owners |-> IF u = row.owner THEN library[u] \cup {q.id} ELSE library[u]]
    /\ defaultPtr' = IF row.isDefault THEN q.id ELSE defaultPtr
    /\ Then(c, IF q.op # "fork" THEN NoCall
               ELSE [q EXCEPT !.row = row, !.at = IF q.graph = Nil THEN "forked" ELSE "load"])
    /\ UNCHANGED assignment

(* clearDefaultPersonaFlags: the persona the pointer names loses its flag  *)
(* (all flagged ones do, when there is no pointer), then the pointer goes. *)
Unflagged(row) == IF row = Nil THEN Nil ELSE [row EXCEPT !.isDefault = FALSE]
Pointed(c) ==
    LET was == defaultPtr IN
    /\ Is(c, "pointed")
    /\ persona' = [i \in PersonaIds |-> IF was \in {i, Nil} THEN Unflagged(persona[i])
                                        ELSE persona[i]]
    /\ Step(c, "unpoint")
    /\ UNCHANGED <<versions, publicSet, library, defaultPtr, assignment>>

Unpoint(c) ==
    /\ Is(c, "unpoint")
    /\ defaultPtr' = Nil
    /\ Step(c, IF call[c].op = "create" THEN "store" ELSE "default")
    /\ UNCHANGED <<persona, versions, publicSet, library, assignment>>

SetDefault(c, i) ==
    /\ Live(i)
    /\ Begin(c, [NoCall EXCEPT !.op = "default", !.at = "pointed", !.id = i,
                               !.row = [persona[i] EXCEPT !.isDefault = TRUE]])
    /\ UNCHANGED Kept

WriteDefault(c) ==
    LET q == call[c] IN
    /\ Is(c, "default")
    /\ persona' = [persona EXCEPT ![q.id] = q.row]
    /\ defaultPtr' = q.id
    /\ Step(c, "end")
    /\ UNCHANGED <<versions, publicSet, library, assignment>>

MayEdit(u, row) == u \in {row.owner, Official}

(* PUT of a persona, by the owner or an administrator, or of its graph:    *)
(* the index first, then the row, then perhaps a new version.              *)
Edit(c, u, i, visibility, publish, graph) ==
    /\ persona[i] # Nil /\ MayEdit(u, persona[i])
    /\ graph # Nil => publish
    /\ Begin(c, [NoCall EXCEPT !.op = "edit", !.id = i, !.by = u, !.publish = publish,
                   !.graph = graph, !.at = IF visibility = "same" THEN "write" ELSE "index",
                   !.row = IF visibility = "same" THEN persona[i]
                           ELSE [persona[i] EXCEPT !.visibility = visibility]])
    /\ UNCHANGED Kept

Index(c) ==
    LET q == call[c] IN
    /\ Is(c, "index")
    /\ publicSet' = Listed(q.id, q.row)
    /\ Step(c, "write")
    /\ UNCHANGED <<persona, versions, library, defaultPtr, assignment>>

Write(c) ==
    LET q == call[c] IN
    /\ Is(c, "write")
    /\ persona' = [persona EXCEPT ![q.id] = q.row]
    /\ Step(c, IF q.publish THEN "load" ELSE "end")
    /\ UNCHANGED <<versions, publicSet, library, defaultPtr, assignment>>

(* publishPersonaVersion: the row is read; the graph of the published      *)
(* version is kept unless the request brings one; the version is written,  *)
(* and then the row that names it.                                         *)
PublishByAdmin(c, i) ==
    /\ persona[i] # Nil
    /\ Begin(c, [NoCall EXCEPT !.op = "publish", !.at = "load", !.id = i])
    /\ UNCHANGED Kept

Publish(c) ==
    LET q == call[c]
        graph == IF q.graph # Nil THEN q.graph ELSE GraphOf(q.id) IN
    /\ Is(c, "load")
    /\ Then(c, [q EXCEPT !.at = "version", !.graph = graph,
                         !.read = persona[q.id]])
    /\ UNCHANGED Kept

WriteVersion(c) ==
    /\ Is(c, "version")
    /\ versions' = Append(versions, [persona |-> call[c].id, graph |-> call[c].graph])
    /\ Then(c, [call[c] EXCEPT !.at = "publish", !.version = Len(versions) + 1])
    /\ UNCHANGED <<persona, publicSet, library, defaultPtr, assignment>>

PointToVersion(c) ==
    LET q == call[c] IN
    /\ Is(c, "publish")
    /\ persona' = [persona EXCEPT ![q.id] = [q.read EXCEPT !.version = q.version]]
    /\ Step(c, IF q.op = "fork" THEN "forked" ELSE "end")
    /\ UNCHANGED <<versions, publicSet, library, defaultPtr, assignment>>

\* A persona that is public or one's own; administrators may copy any.
MayFork(u, admin, source) ==
    /\ Live(source)
    /\ persona[source].owner = u \/ admin \/ persona[source].visibility = "public"

(* POST of a fork: a private copy, with the published graph.               *)
Fork(c, u, admin, i, source) ==
    /\ FreshId(i) /\ MayFork(u, admin, source)
    /\ Begin(c, [NoCall EXCEPT !.op = "fork", !.at = "store", !.id = i, !.by = u,
                   !.graph = GraphOf(source), !.source = source, !.sourceRow = persona[source],
                   !.row = NewPersona(u, "private", FALSE)])
    /\ UNCHANGED Kept

(* The last pipeline of forkPersona: the copy as createPersona returned it *)
(* and the source as it was read.                                          *)
WriteFork(c) ==
    LET q == call[c] IN
    /\ Is(c, "forked")
    /\ persona' = [persona EXCEPT ![q.id] = q.row, ![q.source] = q.sourceRow]
    /\ Step(c, "reply")
    /\ UNCHANGED <<versions, publicSet, library, defaultPtr, assignment>>

Reply(c) == Is(c, "reply") /\ Step(c, "end") /\ UNCHANGED Kept

(* DELETE, takedown and restore: one pipeline after the read.              *)
Switch(c, i, on) ==
    /\ persona[i] # Nil
    /\ on \/ persona[i].owner # Official
    /\ Begin(c, [NoCall EXCEPT !.op = "switch", !.at = "switch", !.id = i,
                               !.row = [persona[i] EXCEPT !.enabled = on]])
    /\ UNCHANGED Kept

WriteSwitch(c) ==
    LET q == call[c]
        Shelf(u) == IF u # q.row.owner THEN library[u]
                    ELSE IF q.row.enabled THEN library[u] \cup {q.id} ELSE library[u] \ {q.id} IN
    /\ Is(c, "switch")
    /\ persona' = [persona EXCEPT ![q.id] = q.row]
    /\ publicSet' = IF Square(q.row) THEN publicSet \cup {q.id}
                    ELSE IF q.row.enabled THEN publicSet ELSE publicSet \ {q.id}
    /\ library' = [u \in Owners |-> Shelf(u)]
    /\ Step(c, "end")
    /\ UNCHANGED <<versions, defaultPtr, assignment>>

(* Into a library, out of it, or to a peer: a counter of the row changes,  *)
(* so that the row is written back as it was read.                         *)
AddToLibrary(c, u, i) ==
    /\ Live(i)
    /\ persona[i].visibility = "public" /\ persona[i].owner # u /\ i \notin library[u]
    /\ library' = [library EXCEPT ![u] = @ \cup {i}]
    /\ Begin(c, [NoCall EXCEPT !.op = "add", !.at = "write", !.id = i, !.row = persona[i]])
    /\ UNCHANGED <<persona, versions, publicSet, defaultPtr, assignment>>

RemoveFromLibrary(c, u, i) ==
    /\ i \in library[u]
    /\ library' = [library EXCEPT ![u] = @ \ {i}]
    /\ Begin(c, [NoCall EXCEPT !.op = "remove", !.id = i, !.row = persona[i],
                               !.at = IF persona[i].owner = u THEN "reply" ELSE "write"])
    /\ UNCHANGED <<persona, versions, publicSet, defaultPtr, assignment>>

Assign(c, u, p, i) ==
    /\ CanUse(u, i) /\ assignment[p] # i
    /\ assignment' = [assignment EXCEPT ![p] = i]
    /\ Begin(c, [NoCall EXCEPT !.op = "assign", !.at = "write", !.id = i, !.row = persona[i]])
    /\ UNCHANGED <<persona, versions, publicSet, library, defaultPtr>>

(* getDefaultPersona, when a message finds no pointer to an enabled        *)
(* persona and no public one: some enabled persona becomes the default.    *)
Fallback(i) ==
    /\ Live(i) /\ ~Live(defaultPtr)
    /\ \A j \in publicSet : persona[j] = Nil \/ ~Square(persona[j])
                            \/ (j = i /\ persona[i].isDefault)
    /\ defaultPtr' = i
    /\ UNCHANGED <<persona, versions, publicSet, library, assignment, call, calls, raced, cut>>

(* An await throws or the process dies: what the request has written stays. *)
BreaksOff(c) ==
    /\ call[c] # NoCall
    /\ call' = [call EXCEPT ![c] = NoCall]
    /\ cut' = (cut \/ (Is(c, "write") /\ call[c].op = "edit"))
    /\ UNCHANGED <<Kept, calls, raced>>

Continue(c) ==
    \/ Store(c) \/ Pointed(c) \/ Unpoint(c) \/ WriteDefault(c) \/ Index(c) \/ Write(c)
    \/ Publish(c) \/ WriteVersion(c) \/ PointToVersion(c) \/ WriteFork(c) \/ Reply(c)
    \/ WriteSwitch(c) \/ BreaksOff(c)

Next ==
    \/ \E i \in PersonaIds : Fallback(i)
    \/ \E c \in Calls :
      \/ Continue(c)
      \/ \E i \in PersonaIds :
           \/ \E u \in Owners \cup {Official} :
                \/ \E v \in {"public", "private"}, d \in BOOLEAN : Create(c, u, i, v, d)
                \/ \E v \in {"public", "private", "same"}, p \in BOOLEAN,
                      g \in Graphs \cup {Nil} : Edit(c, u, i, v, p, g)
           \/ SetDefault(c, i) \/ PublishByAdmin(c, i)
           \/ \E on \in BOOLEAN : Switch(c, i, on)
           \/ \E u \in Owners : \/ \E s \in PersonaIds, admin \in BOOLEAN : Fork(c, u, admin, i, s)
                                \/ AddToLibrary(c, u, i)
                                \/ RemoveFromLibrary(c, u, i)
                                \/ \E p \in Peers : Assign(c, u, p, i)

Spec == Init /\ [][Next]_personaVars
-----------------------------------------------------------------------------
(* Type invariant.                                                         *)
PersonaTypeOK ==
    /\ \A i \in PersonaIds : persona[i] # Nil => persona[i] \in PersonaRows
    /\ publicSet \subseteq PersonaIds
    /\ library \in [Owners -> SUBSET PersonaIds]
    /\ defaultPtr \in PersonaIds \cup {Nil}
    /\ assignment \in [Peers -> PersonaIds \cup {Nil}]
    /\ calls \in 0..MaxCalls /\ raced \in BOOLEAN /\ cut \in BOOLEAN

(* Whatever requests race and wherever they break off, the published       *)
(* version of a persona exists and is one of its own (repos.ts:1548 writes *)
(* the version before the row); and where requests did not overlap, the    *)
(* square lists exactly the personas that are enabled and public, unless   *)
(* an edit broke off between the square (repos.ts:1625) and the row (1661). *)
PublishedIsOwn ==
    /\ \A i \in PersonaIds : persona[i] # Nil =>
         persona[i].version \in 1..Len(versions) /\ versions[persona[i].version].persona = i
    /\ (~raced /\ ~cut /\ \A c \in Calls : call[c] = NoCall) =>
         publicSet = {i \in PersonaIds : persona[i] # Nil /\ Square(persona[i])}

(* docs/chatflow.md:45: "Fork copies graph/mode/web_search".  A fork that  *)
(* nothing raced publishes the graph of its source.                        *)
ForkKeepsGraph ==
    \A c \in Calls : Is(c, "reply") /\ call[c].op = "fork" /\ ~raced =>
        GraphOf(call[c].id) = call[c].graph
=============================================================================
