---------------------------- MODULE SavesProofs ----------------------------
(***************************************************************************)
(* What Saves promises for every number of facts, people, names and turns: *)
(* what is doubted is held, what a guest said stays in its chat, and what  *)
(* is known of somebody forgotten was approved since.                      *)
(***************************************************************************)
EXTENDS Saves, TLAPS

\* A guest's fact has the scope of its chat, held or not.
GuestScoped ==
  /\ \A f \in guests : Saved(f)
  /\ \A f \in guests \ (widened \cup late) :
       fact[f].chat # NoChat => fact[f].scope = "conversation"

\* A fact is linked to a person who was not merged away; in use and linked to one who
\* is forgotten, it was approved since.
OnTheLine ==
  \A f \in Fact \ astray : Saved(f) /\ fact[f].person # Nobody =>
    /\ merged[fact[f].person] = Nobody
    /\ ~fact[f].held /\ fact[f].person \in forgotten => f \in reviewed

\* A line the miner has in hand is held for a doubt, and scoped to its chat for a guest,
\* like the fact it becomes.
Careful(l) ==
  /\ ~l.row.held /\ l.doubts # {} => l.late /\ l.doubts = {"web"}
  /\ l.guest /\ ~l.late /\ l.row.chat # NoChat => l.row.scope = "conversation"
InHand == \A l \in saving : Careful(l)

IInv == TypeOK /\ UntrustedIsHeld /\ GuestScoped /\ OnTheLine /\ InHand

-----------------------------------------------------------------------------
(* The line of somebody who was merged. *)

\* One more step along merged_into.
More(C) == [p \in Person |-> {p} \cup IF merged[p] = Nobody THEN {} ELSE C[merged[p]]]

LEMMA ChainIsDefined ==
  Chain = [n \in 0 .. 7 |->
            [p \in Person |->
               {p} \cup IF n = 0 \/ merged[p] = Nobody THEN {} ELSE Chain[n - 1][merged[p]]]]
<1> DEFINE C0 == [p \in Person |-> {p}]
           C1 == More(C0)
           C2 == More(C1)
           C3 == More(C2)
           C4 == More(C3)
           C5 == More(C4)
           C6 == More(C5)
           C7 == More(C6)
           F == [n \in 0 .. 7 |-> CASE n = 0 -> C0 [] n = 1 -> C1 [] n = 2 -> C2
                                    [] n = 3 -> C3 [] n = 4 -> C4 [] n = 5 -> C5
                                    [] n = 6 -> C6 [] n = 7 -> C7]
           Body(C, n) == [p \in Person |->
              {p} \cup IF n = 0 \/ merged[p] = Nobody THEN {} ELSE C[n - 1][merged[p]]]
<1>1. /\ F[0] = C0 /\ F[1] = C1 /\ F[2] = C2 /\ F[3] = C3
      /\ F[4] = C4 /\ F[5] = C5 /\ F[6] = C6 /\ F[7] = C7
  OBVIOUS
<1>2. F = [n \in 0 .. 7 |-> F[n]]
  OBVIOUS
<1> HIDE DEF F
<1>3. Body(F, 0) = C0
  OBVIOUS
<1>4. \A n \in 1 .. 7 : Body(F, n) = More(F[n - 1])
  BY DEF More
<1> HIDE DEF Body, C0
<1>5. \A n \in 0 .. 7 : F[n] = Body(F, n)
  <2> SUFFICES ASSUME NEW n \in 0 .. 7 PROVE F[n] = Body(F, n)
    OBVIOUS
  <2>1. \/ n = 0 \/ n = 1 \/ n = 2 \/ n = 3 \/ n = 4 \/ n = 5 \/ n = 6 \/ n = 7
    OBVIOUS
  <2> QED
    BY <2>1, <1>1, <1>3, <1>4
<1>6. F = [n \in 0 .. 7 |-> Body(F, n)]
  BY <1>5, <1>2, Zenon
<1>7. \E C : C = [n \in 0 .. 7 |-> Body(C, n)]
  BY <1>6
<1> QED
  BY <1>7 DEF Chain, Body

LEMMA LineOf ==
  ASSUME NEW p \in Person
  PROVE  p \in Line(p) /\ (merged[p] = Nobody => Line(p) = {p})
<1> DEFINE Body(C, n) == [q \in Person |->
              {q} \cup IF n = 0 \/ merged[q] = Nobody THEN {} ELSE C[n - 1][merged[q]]]
<1>1. Chain = [n \in 0 .. 7 |-> Body(Chain, n)]
  BY ChainIsDefined
<1> HIDE DEF Body
<1>2. Chain[7] = Body(Chain, 7)
  <2>1. \A n \in 0 .. 7 : Chain[n] = Body(Chain, n)
    BY <1>1, Zenon
  <2>2. 7 \in 0 .. 7
    OBVIOUS
  <2> QED
    BY <2>1, <2>2, Zenon
<1>3. Body(Chain, 7)[p] = {p} \cup IF merged[p] = Nobody THEN {} ELSE Chain[7 - 1][merged[p]]
  BY DEF Body
<1> QED
  BY <1>2, <1>3 DEF Line

\* A turn's identity leads to nobody, or to somebody on record neither merged away nor
\* forgotten.
LEMMA BindingIsOpen ==
  ASSUME NEW t
  PROVE  \/ Binding(t) = Nobody
         \/ /\ Binding(t) \in people \ forgotten
            /\ merged[Binding(t)] = Nobody
  BY DEF Binding

-----------------------------------------------------------------------------
(* Types. *)

LEMMA TypeInit == Init => TypeOK
<1> SUFFICES ASSUME Init PROVE TypeOK
  OBVIOUS
<1>1. /\ fact \in [Fact -> Row \cup {NoFact}]
      /\ \A f \in Fact : fact[f] = NoFact
  BY DEF Init
<1>2. doubts \in [Fact -> SUBSET {"web", "other"}]
  BY DEF Init
<1>3. merged \in [Person -> people \cup {Nobody}] /\ alias \in [Name -> people \cup {Nobody}]
  BY DEF Init
<1>4. \A p \in Person : merged[p] # p
  BY SavesAssumption DEF SavesAssumption, Init
<1>5. \A H \in {guests, widened, late, reviewed, astray} : H \subseteq Fact
  BY DEF Init
<1>6. /\ turns \subseteq sent /\ sent \subseteq Turn /\ window \subseteq sent
      /\ chats \subseteq Chat /\ (sent # {} => Home \in chats) /\ people \subseteq Person /\ forgotten \subseteq people
  BY DEF Init
<1>7. /\ saving = {}
      /\ asked \in [Handler -> Asking] /\ \A h \in Handler : asked[h] = Idle
  BY DEF Init, Asking, Idle
<1> QED
  BY <1>1, <1>2, <1>3, <1>4, <1>5, <1>6, <1>7, Zenon DEF TypeOK

LEMMA RowFields ==
  ASSUME TypeOK, NEW f \in Fact, Saved(f)
  PROVE  /\ fact[f].source \in Turn \cup {NoTurn} /\ fact[f].chat \in Chat \cup {NoChat}
         /\ fact[f].scope \in {"global", "conversation"} /\ fact[f].held \in BOOLEAN
         /\ fact[f].person \in people \cup {Nobody} /\ fact[f].person \in Person \cup {Nobody}
         /\ fact[f].chat # NoChat => fact[f].chat \in chats
<1>1. fact[f] \in Row
  BY DEF TypeOK, Saved
<1> QED
  BY <1>1 DEF Row, TypeOK, Saved

\* What each way to change the rows leaves of a fact g.
Kept(g) ==
  /\ fact'[g] = NoFact <=> fact[g] = NoFact
  /\ fact[g] # NoFact => /\ fact'[g] \in Row
                         /\ fact'[g].chat = fact[g].chat

LEMMA HeldRows ==
  ASSUME TypeOK, NEW F, \A f \in F : Saved(f), HoldAll(F), NEW g \in Fact
  PROVE  /\ Kept(g)
         /\ Saved(g) => /\ fact'[g].scope = fact[g].scope /\ fact'[g].person = fact[g].person
                        /\ fact'[g].held \in BOOLEAN
                        /\ g \notin F => fact'[g].held = fact[g].held
                        /\ g \in F => fact'[g].held
<1>1. fact'[g] = IF g \in F THEN [fact[g] EXCEPT !.held = TRUE] ELSE fact[g]
  BY DEF HoldAll
<1>2. fact[g] \in Row \cup {NoFact}
  BY DEF TypeOK
<1>3. CASE g \in F
  <2>1. fact[g] \in Row /\ fact[g] # NoFact
    BY <1>2, <1>3 DEF Saved
  <2>2. fact'[g] = [source |-> fact[g].source, chat |-> fact[g].chat,
                    scope |-> fact[g].scope, held |-> TRUE, person |-> fact[g].person]
    BY <1>1, <1>3, <2>1 DEF Row
  <2>3. fact'[g] \in Row
    BY <2>1, <2>2 DEF Row
  <2>4. /\ fact'[g].chat = fact[g].chat /\ fact'[g].scope = fact[g].scope
        /\ fact'[g].person = fact[g].person
    BY <2>2
  <2>5. fact'[g].held = TRUE
    BY <2>2
  <2>6. Kept(g)
    BY <2>1, <2>3, <2>4, NoFactAssumption DEF Kept, NoFactAssumption
  <2> QED
    BY <2>4, <2>5, <2>6, <1>3, Zenon
<1>4. CASE g \notin F
  <2>1. fact'[g] = fact[g]
    BY <1>1, <1>4
  <2>2. fact[g] # NoFact => fact[g] \in Row /\ fact[g].held \in BOOLEAN
    BY <1>2 DEF Row
  <2> QED
    BY <2>1, <2>2, <1>4 DEF Kept, Saved
<1> QED
  BY <1>3, <1>4

LEMMA RelinkedRows ==
  ASSUME TypeOK, NEW F, \A f \in F : Saved(f), NEW p \in Person, Relink(F, p), NEW g \in Fact
  PROVE  /\ Kept(g)
         /\ Saved(g) => /\ fact'[g].scope = fact[g].scope /\ fact'[g].held = fact[g].held
                        /\ fact'[g].person = IF g \in F THEN p ELSE fact[g].person
<1>1. fact'[g] = IF g \in F THEN [fact[g] EXCEPT !.person = p] ELSE fact[g]
  BY DEF Relink
<1>2. fact[g] \in Row \cup {NoFact}
  BY DEF TypeOK
<1>3. CASE g \in F
  <2>1. fact[g] \in Row /\ fact[g] # NoFact
    BY <1>2, <1>3 DEF Saved
  <2>2. fact'[g] = [source |-> fact[g].source, chat |-> fact[g].chat,
                    scope |-> fact[g].scope, held |-> fact[g].held, person |-> p]
    BY <1>1, <1>3, <2>1 DEF Row
  <2>3. fact'[g] \in Row
    BY <2>1, <2>2 DEF Row
  <2> QED
    BY <2>1, <2>2, <2>3, <1>3, NoFactAssumption DEF Kept, NoFactAssumption
<1>4. CASE g \notin F
  BY <1>1, <1>2, <1>4 DEF Kept, Saved
<1> QED
  BY <1>3, <1>4

\* What AddFact makes.
Added(r, t, c, o, app, web, gs, reason) ==
  /\ r \in Row /\ r.chat = c
  /\ r.person = Provenance(t).person /\ r.person \in people \cup {Nobody}
  /\ FromGuest(t, gs) /\ c # NoChat => r.scope = "conversation"
  /\ ~r.held => ~reason /\ Trusted(o, app) /\ ~web /\ ~Provenance(t).web /\ ~gs

LEMMA AddedRow ==
  ASSUME TypeOK, NEW t \in Turn \cup {NoTurn}, NEW c \in Chat \cup {NoChat},
         NEW o, NEW app, NEW web, NEW gs, NEW reason
  PROVE  Added(AddFact(t, c, o, app, web, gs, reason), t, c, o, app, web, gs, reason)
<1> DEFINE held == reason \/ ~Trusted(o, app) \/ web \/ Provenance(t).web \/ gs
           scope == IF FromGuest(t, gs) /\ c # NoChat THEN "conversation" ELSE "global"
           person == Provenance(t).person
<1>1. person \in people \cup {Nobody}
  <2>1. CASE t \in turns
    BY <2>1, BindingIsOpen DEF Provenance
  <2>2. CASE t \notin turns
    BY <2>2 DEF Provenance
  <2> QED
    BY <2>1, <2>2
<1>2. person \in Person \cup {Nobody}
  BY <1>1 DEF TypeOK
<1>3. scope \in {"global", "conversation"}
  OBVIOUS
<1>4. held \in BOOLEAN
  OBVIOUS
<1> DEFINE r == AddFact(t, c, o, app, web, gs, reason)
<1>5. r = [source |-> t, chat |-> c, scope |-> scope, held |-> held, person |-> person]
  BY DEF AddFact
<1>6. FromGuest(t, gs) /\ c # NoChat => scope = "conversation"
  OBVIOUS
<1>7. ~held => ~reason /\ Trusted(o, app) /\ ~web /\ ~Provenance(t).web /\ ~gs
  OBVIOUS
<1> HIDE DEF held, scope, person, r
<1>8. r \in Row
  BY <1>2, <1>3, <1>4, <1>5 DEF Row
<1>9. r.chat = c /\ r.scope = scope /\ r.person = person /\ r.held = held
  BY <1>5
<1> QED
  BY <1>1, <1>6, <1>7, <1>8, <1>9, Zenon DEF person, r, Added

\* A row is inserted.
LEMMA Inserted ==
  ASSUME TypeOK, NEW f \in Fact, NEW r \in Row, fact' = [fact EXCEPT ![f] = r]
  PROVE  /\ fact' \in [Fact -> Row \cup {NoFact}] /\ fact'[f] = r
         /\ \A g \in Fact \ {f} : fact'[g] = fact[g]
  BY DEF TypeOK

\* The turn the miner binds a line to, and the chat it saves to, are known.
LEMMA MinedTurn ==
  ASSUME TypeOK, NEW t \in window \cup {NoTurn}, NEW words
  PROVE  /\ t \in Turn \cup {NoTurn}
         /\ Retried(t, words) \in window \cup {NoTurn}
         /\ window # {} => Home \in chats
  BY DEF TypeOK, Retried

\* An untrusted turn with the most words of a fact leaves it held: the retry binds it
\* to no other turn, and an unbound fact is held for any untrusted turn in the window.
LEMMA GuestsWordsFlag ==
  ASSUME NEW t \in window \cup {NoTurn}, NEW words \in [window -> 0 .. MaxWords],
         GuestsWords(words)
  PROVE  SpeakerFlag(Retried(t, words))
<1>1. PICK u \in window : /\ Untrusted(u) /\ words[u] > 0
                          /\ \A v \in window : words[v] <= words[u]
  BY DEF GuestsWords
<1>2. CASE Retried(t, words) = NoTurn
  BY <1>1, <1>2 DEF SpeakerFlag
<1>3. CASE Retried(t, words) # NoTurn
  <2>1. Retried(t, words) = t /\ t \in window /\ t # NoTurn /\ RetryHolds(t, words)
    BY <1>3 DEF Retried
  <2>2. words[t] \in Int /\ words[u] \in Int
    BY <2>1, <1>1, SavesAssumption DEF SavesAssumption
  <2>3. u = t
    BY <2>1, <2>2, <1>1 DEF RetryHolds
  <2> QED
    BY <1>1, <2>1, <2>3 DEF SpeakerFlag
<1> QED
  BY <1>2, <1>3

\* A field of one row is set.
LEMMA FieldSet ==
  ASSUME TypeOK, NEW f \in Fact, Saved(f), NEW s \in {"global", "conversation"},
         NEW t \in Turn \cup {NoTurn},
         \/ fact' = [fact EXCEPT ![f].held = FALSE]
         \/ fact' = [fact EXCEPT ![f].scope = s]
         \/ fact' = [fact EXCEPT ![f].source = t]
  PROVE  /\ fact' \in [Fact -> Row \cup {NoFact}]
         /\ fact'[f] \in Row /\ fact'[f].chat = fact[f].chat /\ fact'[f].person = fact[f].person
         /\ \A g \in Fact \ {f} : fact'[g] = fact[g]
<1>1. fact[f] \in Row
  BY DEF TypeOK, Saved
<1>2. \/ fact' = [fact EXCEPT ![f] = [fact[f] EXCEPT !.held = FALSE]]
      \/ fact' = [fact EXCEPT ![f] = [fact[f] EXCEPT !.scope = s]]
      \/ fact' = [fact EXCEPT ![f] = [fact[f] EXCEPT !.source = t]]
  OBVIOUS
<1>3. ASSUME NEW r \in Row, fact' = [fact EXCEPT ![f] = r],
             r.chat = fact[f].chat, r.person = fact[f].person
      PROVE  /\ fact' \in [Fact -> Row \cup {NoFact}]
             /\ fact'[f] \in Row /\ fact'[f].chat = fact[f].chat
             /\ fact'[f].person = fact[f].person
             /\ \A g \in Fact \ {f} : fact'[g] = fact[g]
  BY <1>3 DEF TypeOK
<1>4. CASE fact' = [fact EXCEPT ![f] = [fact[f] EXCEPT !.held = FALSE]]
  <2>1. /\ [fact[f] EXCEPT !.held = FALSE] \in Row
        /\ [fact[f] EXCEPT !.held = FALSE].chat = fact[f].chat
        /\ [fact[f] EXCEPT !.held = FALSE].person = fact[f].person
    BY <1>1 DEF Row
  <2> QED
    BY <2>1, <1>3, <1>4
<1>5. CASE fact' = [fact EXCEPT ![f] = [fact[f] EXCEPT !.scope = s]]
  <2>1. /\ [fact[f] EXCEPT !.scope = s] \in Row
        /\ [fact[f] EXCEPT !.scope = s].chat = fact[f].chat
        /\ [fact[f] EXCEPT !.scope = s].person = fact[f].person
    BY <1>1 DEF Row
  <2> QED
    BY <2>1, <1>3, <1>5
<1>6. CASE fact' = [fact EXCEPT ![f] = [fact[f] EXCEPT !.source = t]]
  <2>1. /\ [fact[f] EXCEPT !.source = t] \in Row
        /\ [fact[f] EXCEPT !.source = t].chat = fact[f].chat
        /\ [fact[f] EXCEPT !.source = t].person = fact[f].person
    BY <1>1 DEF Row
  <2> QED
    BY <2>1, <1>3, <1>6
<1> QED
  BY <1>2, <1>4, <1>5, <1>6

LEMMA ScopeSet ==
  ASSUME TypeOK, NEW f \in Fact, Saved(f), NEW s \in {"global", "conversation"},
         fact' = [fact EXCEPT ![f].scope = s]
  PROVE  fact'[f].scope = s /\ fact'[f].held = fact[f].held
<1>1. fact[f] \in Row
  BY DEF TypeOK, Saved
<1>2. fact'[f] = [fact[f] EXCEPT !.scope = s]
  BY DEF TypeOK
<1> QED
  BY <1>1, <1>2 DEF Row

LEMMA SourceSet ==
  ASSUME TypeOK, NEW f \in Fact, Saved(f), NEW t \in Turn,
         fact' = [fact EXCEPT ![f].source = t]
  PROVE  fact'[f].scope = fact[f].scope /\ fact'[f].held = fact[f].held
<1>1. fact[f] \in Row
  BY DEF TypeOK, Saved
<1>2. fact'[f] = [fact[f] EXCEPT !.source = t]
  BY DEF TypeOK
<1> QED
  BY <1>1, <1>2 DEF Row

LEMMA HeldCleared ==
  ASSUME TypeOK, NEW f \in Fact, Saved(f), fact' = [fact EXCEPT ![f].held = FALSE]
  PROVE  fact'[f].scope = fact[f].scope
<1>1. fact[f] \in Row
  BY DEF TypeOK, Saved
<1>2. fact'[f] = [fact[f] EXCEPT !.held = FALSE]
  BY DEF TypeOK
<1> QED
  BY <1>1, <1>2 DEF Row

\* The history of doubts keeps its type.
LEMMA DoubtType ==
  ASSUME TypeOK, NEW f \in Fact, NEW D \in SUBSET {"web", "other"}, Doubted(f, D)
  PROVE  /\ doubts' \in [Fact -> SUBSET {"web", "other"}] /\ doubts'[f] = D
         /\ \A g \in Fact \ {f} : doubts'[g] = doubts[g]
  BY DEF TypeOK, Doubted

\* A line the miner draws is a row that awaits its insert, held for every doubt but the
\* web stamp of a turn erased since.
Ready(l) == /\ l \in DrawnLine /\ Careful(l)
            /\ l.row.chat \in chats /\ l.row.person \in people \cup {Nobody}

LEMMA MinedLine ==
  ASSUME TypeOK, NEW t \in window \cup {NoTurn}, NEW app \in App,
         NEW gw, NEW walled, gw => SpeakerFlag(t), MinerDraws(t, gw, app, walled),
         NEW l \in saving'
  PROVE  Ready(l)
<1> DEFINE R == AddFact(t, Home, "agent", app, FALSE, FALSE, walled \/ SpeakerFlag(t))
           D == If(t # NoTurn /\ t.web, "web")
                \cup If(\/ app # "registered" \/ walled \/ gw
                        \/ t # NoTurn /\ Untrusted(t), "other")
           G == t # NoTurn /\ t.speaker \in {"guest", "guest-unknown"}
           L == t # NoTurn /\ t \notin turns
<1>1. window # {} /\ l = [row |-> R, doubts |-> D, guest |-> G, late |-> L]
  BY DEF MinerDraws
<1>2. t \in Turn \cup {NoTurn} /\ Home \in chats /\ Home \in Chat \cup {NoChat}
  BY <1>1, MinedTurn, SavesAssumption DEF SavesAssumption
<1>3. D \in SUBSET {"web", "other"}
  BY DEF If
<1>4. G \in BOOLEAN /\ L \in BOOLEAN
  OBVIOUS
<1>6. /\ R \in Row /\ R.chat = Home /\ R.person \in people \cup {Nobody}
      /\ FromGuest(t, FALSE) /\ Home # NoChat => R.scope = "conversation"
      /\ ~R.held => ~(walled \/ SpeakerFlag(t)) /\ Trusted("agent", app) /\ ~Provenance(t).web
  <2> DEFINE reason == walled \/ SpeakerFlag(t)
  <2>1. R = AddFact(t, Home, "agent", app, FALSE, FALSE, reason)
    OBVIOUS
  <2> HIDE DEF R, reason
  <2>2. /\ R \in Row /\ R.chat = Home /\ R.person \in people \cup {Nobody}
        /\ FromGuest(t, FALSE) /\ Home # NoChat => R.scope = "conversation"
        /\ ~R.held => ~reason /\ Trusted("agent", app) /\ ~Provenance(t).web
    <3>1. Added(R, t, Home, "agent", app, FALSE, FALSE, reason)
      <4>1. Home \in Chat \cup {NoChat} /\ t \in Turn \cup {NoTurn}
        BY <1>2
      <4> QED
        BY <2>1, <4>1, AddedRow, Zenon
    <3> QED
      BY <3>1, Zenon DEF Added
  <2> QED
    BY <2>2 DEF reason
<1>7. ASSUME ~R.held, D # {} PROVE L /\ D = {"web"}
  <2>1. app = "registered" /\ ~walled /\ ~SpeakerFlag(t) /\ ~Provenance(t).web /\ ~gw
    BY <1>6, <1>7 DEF Trusted
  <2>2. t # NoTurn => ~Untrusted(t)
    BY <2>1 DEF SpeakerFlag
  <2>3. t # NoTurn /\ t.web /\ D = {"web"}
    BY <1>7, <2>1, <2>2 DEF If
  <2>4. t \notin turns
    BY <2>1, <2>3 DEF Provenance
  <2> QED
    BY <2>3, <2>4
<1>8. G /\ ~L => FromGuest(t, FALSE)
  BY DEF FromGuest
<1> HIDE DEF R, D, G, L
<1>9. l \in DrawnLine /\ l.row = R /\ l.doubts = D /\ l.guest = G /\ l.late = L
  BY <1>1, <1>3, <1>4, <1>6 DEF DrawnLine
<1> QED
  BY <1>2, <1>6, <1>7, <1>8, <1>9 DEF Ready, Careful

\* The parts of the type that are not about rows.
TypeRest ==
  /\ turns \subseteq sent /\ sent \subseteq Turn /\ window \subseteq sent
  /\ chats \subseteq Chat /\ (sent # {} => Home \in chats)
  /\ people \subseteq Person /\ forgotten \subseteq people
  /\ merged \in [Person -> people \cup {Nobody}] /\ \A p \in Person : merged[p] # p
  /\ alias \in [Name -> people \cup {Nobody}]
  /\ guests \subseteq Fact /\ widened \subseteq Fact /\ late \subseteq Fact
  /\ reviewed \subseteq Fact /\ astray \subseteq Fact

HandType ==
  /\ saving \subseteq DrawnLine
  /\ \A l \in saving : l.row.chat \in chats /\ l.row.person \in people \cup {Nobody}
  /\ asked \in [Handler -> Asking]
  /\ \A h \in Handler : asked[h] # Idle =>
       asked[h].of \in people /\ asked[h].to \in (people \cup {Nobody}) \ {asked[h].of}

RowType ==
  /\ fact \in [Fact -> Row \cup {NoFact}]
  /\ \A f \in Fact : fact[f] # NoFact /\ fact[f].chat # NoChat => fact[f].chat \in chats
  /\ \A f \in Fact : fact[f] # NoFact => fact[f].person \in people \cup {Nobody}

LEMMA TypeParts ==
  TypeOK <=> TypeRest /\ HandType /\ RowType /\ doubts \in [Fact -> SUBSET {"web", "other"}]
<1>1. (\A H \in {guests, widened, late, reviewed, astray} : H \subseteq Fact)
        <=> /\ guests \subseteq Fact /\ widened \subseteq Fact /\ late \subseteq Fact
            /\ reviewed \subseteq Fact /\ astray \subseteq Fact
  OBVIOUS
<1> QED
  BY <1>1, Zenon DEF TypeOK, TypeRest, HandType, RowType

\* What is in hand stays as it is, or is let go.
LEMMA HandKept ==
  ASSUME HandType, saving' \subseteq saving,
         asked' = asked \/ \E h \in Handler : asked' = [asked EXCEPT ![h] = Idle],
         chats \subseteq chats', people \subseteq people'
  PROVE  HandType'
<1>1. Idle \in Asking
  BY DEF Idle, Asking
<1>2. saving' \subseteq DrawnLine
      /\ \A l \in saving' : l.row.chat \in chats' /\ l.row.person \in people' \cup {Nobody}
  BY DEF HandType
<1>3. asked' \in [Handler -> Asking]
  BY <1>1 DEF HandType
<1>4. \A h \in Handler : asked'[h] # Idle => asked'[h] = asked[h] /\ asked[h] # Idle
  BY DEF HandType
<1>5. \A h \in Handler : asked'[h] # Idle =>
        asked'[h].of \in people' /\ asked'[h].to \in (people' \cup {Nobody}) \ {asked'[h].of}
  BY <1>4 DEF HandType
<1> QED
  BY <1>2, <1>3, <1>5 DEF HandType

LEMMA SavedBody ==
  ASSUME TypeOK, NEW b \in FactBody
  PROVE  /\ Opened(b) \subseteq Chat
         /\ SaveConversation(b) \in Chat \cup {NoChat}
         /\ SaveConversation(b) # NoChat => SaveConversation(b) \in chats \cup Opened(b)
         /\ b.web \in BOOLEAN /\ b.guests \in BOOLEAN
  BY DEF FactBody, Opened, If, SaveConversation

\* A client's save is a row with no turn behind it; in use, it is not doubted.
LEMMA SavedRow ==
  ASSUME TypeOK, NEW f \in Fact, NEW b \in FactBody, SaveDirect(f, b)
  PROVE  /\ ~Saved(f) /\ fact' \in [Fact -> Row \cup {NoFact}]
         /\ \A g \in Fact \ {f} : fact'[g] = fact[g] /\ doubts'[g] = doubts[g]
         /\ fact'[f] \in Row /\ fact'[f].chat = SaveConversation(b)
         /\ fact'[f].person = Nobody
         /\ b.guests /\ fact'[f].chat # NoChat => fact'[f].scope = "conversation"
         /\ doubts' \in [Fact -> SUBSET {"web", "other"}]
         /\ ~fact'[f].held => doubts'[f] = {}
<1> DEFINE D == If(b.web, "web")
                \cup If(\/ b.origin = "mcp" \/ b.guests
                        \/ b.origin = "agent" /\ b.app # "registered", "other")
           R == AddFact(NoTurn, SaveConversation(b), b.origin, b.app, b.web, b.guests, FALSE)
<1>1. ~Saved(f) /\ Doubted(f, D) /\ fact' = [fact EXCEPT ![f] = R]
  BY DEF SaveDirect
<1>2. D \in SUBSET {"web", "other"}
  BY DEF If
<1>3. /\ doubts' \in [Fact -> SUBSET {"web", "other"}] /\ doubts'[f] = D
      /\ \A g \in Fact \ {f} : doubts'[g] = doubts[g]
  BY <1>1, <1>2, DoubtType
<1>4. NoTurn \notin turns
  BY SavesAssumption DEF SavesAssumption, TypeOK
<1>5. Provenance(NoTurn).person = Nobody
  BY <1>4 DEF Provenance
<1>6. b.guests => FromGuest(NoTurn, b.guests)
  BY DEF FromGuest
<1>7. b.web \in BOOLEAN /\ b.guests \in BOOLEAN /\ SaveConversation(b) \in Chat \cup {NoChat}
  BY SavedBody
<1> HIDE DEF D
<1>8. /\ R \in Row /\ R.chat = SaveConversation(b) /\ R.person = Provenance(NoTurn).person
      /\ FromGuest(NoTurn, b.guests) /\ SaveConversation(b) # NoChat => R.scope = "conversation"
      /\ ~R.held => Trusted(b.origin, b.app) /\ ~b.web /\ ~b.guests
  <2>1. Added(R, NoTurn, SaveConversation(b), b.origin, b.app, b.web, b.guests, FALSE)
    <3>1. SaveConversation(b) \in Chat \cup {NoChat} /\ NoTurn \in Turn \cup {NoTurn}
      BY <1>7
    <3> QED
      BY <3>1, AddedRow, Zenon
  <2> HIDE DEF R
  <2> QED
    BY <2>1, Zenon DEF Added
<1>10. /\ fact' \in [Fact -> Row \cup {NoFact}] /\ fact'[f] = R
       /\ \A g \in Fact \ {f} : fact'[g] = fact[g]
  <2> HIDE DEF R
  <2> QED
    BY <1>1, <1>8, Inserted
<1> HIDE DEF R
<1>9. ASSUME Trusted(b.origin, b.app), ~b.web, ~b.guests PROVE D = {}
  BY <1>9 DEF D, Trusted, If
<1> QED
  BY <1>1, <1>3, <1>5, <1>6, <1>8, <1>9, <1>10, Zenon

\* The rows of g are right when the action left g's row, or its chat and its person.
LEMMA RowTypeStep ==
  ASSUME TypeOK, fact' \in [Fact -> Row \cup {NoFact}],
         chats \subseteq chats', people \subseteq people',
         \A g \in Fact : fact'[g] # NoFact =>
           \/ fact'[g] = fact[g]
           \/ /\ fact'[g].chat # NoChat => fact'[g].chat \in chats'
              /\ fact'[g].person \in people' \cup {Nobody}
  PROVE  RowType'
  BY DEF TypeOK, RowType

\* Every line the miner draws, of a turn in its window or of none, is such a row.
LEMMA MinedBy ==
  ASSUME TypeOK, MinerDrawsOne
  PROVE  \A l \in saving' : Ready(l)
<1>1. PICK app \in App, walled \in BOOLEAN :
        \/ \E t \in window : MinerDraws(t, FALSE, app, walled)
        \/ \E t \in window \cup {NoTurn}, words \in [window -> 0 .. MaxWords] :
             MinerDraws(Retried(t, words), GuestsWords(words), app, walled)
  BY DEF MinerDrawsOne
<1>2. CASE \E t \in window : MinerDraws(t, FALSE, app, walled)
  <2>1. PICK t \in window : MinerDraws(t, FALSE, app, walled)
    BY <1>2
  <2> QED
    BY <2>1, MinedLine
<1>3. CASE \E t \in window \cup {NoTurn}, words \in [window -> 0 .. MaxWords] :
             MinerDraws(Retried(t, words), GuestsWords(words), app, walled)
  <2>1. PICK t \in window \cup {NoTurn}, words \in [window -> 0 .. MaxWords] :
          MinerDraws(Retried(t, words), GuestsWords(words), app, walled)
    BY <1>3
  <2>2. Retried(t, words) \in window \cup {NoTurn}
    BY DEF Retried
  <2>3. GuestsWords(words) => SpeakerFlag(Retried(t, words))
    BY GuestsWordsFlag
  <2> QED
    BY <2>1, <2>2, <2>3, MinedLine
<1> QED
  BY <1>1, <1>2, <1>3

LEMMA MinerDrawsRest ==
  ASSUME MinerDrawsOne
  PROVE  UNCHANGED <<fact, persons, asked, turns, sent, chats, window, histories>>
  BY DEF MinerDrawsOne, MinerDraws

\* A request that is served has the people its check let through.
LEMMA WaitedFor ==
  ASSUME TypeOK, NEW h \in Handler, Waited(h)
  PROVE  \E p \in people, q \in people \cup {Nobody} :
           p # q /\ Writes(p, q) /\ asked' = [asked EXCEPT ![h] = Idle]
  BY DEF TypeOK, Waited, Returns

LEMMA TypeStep == TypeOK /\ [Next]_vars => TypeOK'
<1> SUFFICES ASSUME TypeOK, [Next]_vars PROVE TypeOK'
  OBVIOUS
<1> USE DEF persons, chatVars, miner, histories
<1>0. TypeRest /\ HandType /\ RowType /\ doubts \in [Fact -> SUBSET {"web", "other"}]
  BY TypeParts
<1> DEFINE Rest == TypeRest' /\ HandType'
           Doubts == doubts' \in [Fact -> SUBSET {"web", "other"}]
<1>1. ASSUME Rest, RowType', Doubts PROVE TypeOK'
  <2>1. \A H \in {guests', widened', late', reviewed', astray'} : H \subseteq Fact
    BY <1>1 DEF TypeRest
  <2> QED
    BY <1>1, <2>1, Zenon DEF TypeOK, TypeRest, HandType, RowType
<1>2. ASSUME NEW f \in Fact, NEW b \in FactBody, SaveDirect(f, b) PROVE TypeOK'
  <2>1. /\ fact' \in [Fact -> Row \cup {NoFact}]
        /\ \A g \in Fact \ {f} : fact'[g] = fact[g]
        /\ fact'[f].chat = SaveConversation(b) /\ fact'[f].person = Nobody /\ Doubts
    BY <1>2, SavedRow
  <2>2. /\ chats' = chats \cup Opened(b)
        /\ UNCHANGED <<turns, sent, miner, persons, asked, widened, late, reviewed, astray>>
        /\ guests' \subseteq guests \cup {f}
    BY <1>2 DEF SaveDirect
  <2>3. Rest
    BY <1>0, <2>2, SavedBody, HandKept DEF TypeRest
  <2>4. RowType'
    BY <2>1, <2>2, SavedBody, RowTypeStep
  <2> QED
    BY <1>1, <2>1, <2>3, <2>4
<1>3. ASSUME NEW f \in Fact, MinerSaves(f) PROVE TypeOK'
  <2>1. PICK l \in saving : /\ fact' = [fact EXCEPT ![f] = l.row] /\ Doubted(f, l.doubts)
                            /\ guests' \subseteq guests \cup {f} /\ late' \subseteq late \cup {f}
                            /\ astray' \subseteq astray \cup {f}
    BY <1>3 DEF MinerSaves
  <2>2. /\ l.row \in Row /\ l.doubts \in SUBSET {"web", "other"}
        /\ l.row.chat \in chats /\ l.row.person \in people \cup {Nobody}
    BY <1>0 DEF HandType, DrawnLine
  <2>3. /\ fact' \in [Fact -> Row \cup {NoFact}] /\ fact'[f] = l.row
        /\ \A g \in Fact \ {f} : fact'[g] = fact[g]
    BY <2>1, <2>2, Inserted
  <2>4. saving' = {} /\ UNCHANGED <<persons, asked, turns, sent, chats, window, widened, reviewed>>
    BY <1>3 DEF MinerSaves
  <2>5. Rest
    BY <1>0, <2>1, <2>4, HandKept DEF TypeRest
  <2>6. RowType'
    BY <2>2, <2>3, <2>4, RowTypeStep
  <2>7. Doubts
    BY <2>1, <2>2, DoubtType
  <2> QED
    BY <1>1, <2>5, <2>6, <2>7
<1>4. ASSUME NEW f \in Fact, Approve(f) PROVE TypeOK'
  <2>1. /\ Saved(f) /\ fact' = [fact EXCEPT ![f].held = FALSE] /\ Doubted(f, {})
        /\ UNCHANGED <<persons, asked, chatVars, guests, widened, late, astray>>
        /\ reviewed' \subseteq reviewed \cup {f}
    BY <1>4 DEF Approve
  <2>2. /\ fact' \in [Fact -> Row \cup {NoFact}]
        /\ fact'[f].chat = fact[f].chat /\ fact'[f].person = fact[f].person
        /\ \A g \in Fact \ {f} : fact'[g] = fact[g]
    BY <2>1, FieldSet
  <2>3. Rest
    BY <1>0, <2>1, HandKept DEF TypeRest
  <2>4. RowType'
    BY <2>1, <2>2, RowFields, RowTypeStep
  <2>5. Doubts
    BY <2>1, DoubtType
  <2> QED
    BY <1>1, <2>3, <2>4, <2>5
<1>5. ASSUME NEW f \in Fact, Quarantine(f) PROVE TypeOK'
  <2>1. HoldAll({f}) /\ Saved(f) /\ UNCHANGED <<persons, asked, chatVars, histories>>
    BY <1>5 DEF Quarantine, InUse
  <2>2. RowType'
    <3>1. \A g \in Fact : Kept(g) /\ (Saved(g) => fact'[g].person = fact[g].person)
      BY <2>1, HeldRows
    <3>2. fact' \in [Fact -> Row \cup {NoFact}]
      BY <2>1, <3>1 DEF HoldAll, Kept
    <3> QED
      BY <1>0, <2>1, <3>1, <3>2, RowTypeStep DEF Kept, Saved, RowType
  <2> QED
    BY <1>0, <1>1, <2>1, <2>2, HandKept DEF TypeRest
<1>6. ASSUME NEW f \in Fact, NEW s \in {"global", "conversation"}, SetScope(f, s) PROVE TypeOK'
  <2>1. /\ Saved(f) /\ fact' = [fact EXCEPT ![f].scope = s]
        /\ UNCHANGED <<persons, asked, chatVars, doubts, guests, late, reviewed, astray>>
        /\ widened' \subseteq widened \cup {f}
    BY <1>6 DEF SetScope
  <2>2. /\ fact' \in [Fact -> Row \cup {NoFact}]
        /\ fact'[f].chat = fact[f].chat /\ fact'[f].person = fact[f].person
        /\ \A g \in Fact \ {f} : fact'[g] = fact[g]
    BY <2>1, FieldSet
  <2>3. RowType'
    BY <2>1, <2>2, RowFields, RowTypeStep
  <2> QED
    BY <1>0, <1>1, <2>1, <2>3, HandKept DEF TypeRest
<1>7. ASSUME NEW f \in Fact, NEW t \in Turn, Bind(f, t) PROVE TypeOK'
  <2>1. /\ Saved(f) /\ fact' = [fact EXCEPT ![f].source = t]
        /\ Doubted(f, doubts[f] \cup If(t.web, "web") \cup If(Untrusted(t), "other"))
        /\ UNCHANGED <<persons, asked, chatVars, guests, widened, late, reviewed, astray>>
    BY <1>7 DEF Bind, InUse
  <2>2. /\ fact' \in [Fact -> Row \cup {NoFact}]
        /\ fact'[f].chat = fact[f].chat /\ fact'[f].person = fact[f].person
        /\ \A g \in Fact \ {f} : fact'[g] = fact[g]
    BY <2>1, FieldSet
  <2>3. RowType'
    BY <2>1, <2>2, RowFields, RowTypeStep
  <2>4. doubts[f] \cup If(t.web, "web") \cup If(Untrusted(t), "other") \in SUBSET {"web", "other"}
    BY <1>0 DEF If
  <2>5. Doubts
    BY <2>1, <2>4, DoubtType
  <2>6. Rest
    BY <1>0, <2>1, HandKept DEF TypeRest
  <2> QED
    BY <1>1, <2>3, <2>5, <2>6
<1>8. ASSUME UNCHANGED <<fact, doubts, persons>>, Rest, chats \subseteq chats' PROVE TypeOK'
  BY <1>0, <1>1, <1>8 DEF RowType
<1>9. CASE MinerReads \/ MinerEnds
  BY <1>0, <1>8, <1>9, HandKept DEF MinerReads, MinerEnds, TypeRest
<1>18. CASE MinerDrawsOne
  <2>1. \A l \in saving' : Ready(l)
    BY <1>18, MinedBy
  <2>2. UNCHANGED <<fact, persons, asked, turns, sent, chats, window, histories>>
    BY <1>18, MinerDrawsRest
  <2>3. HandType'
    BY <1>0, <2>1, <2>2 DEF HandType, Ready
  <2>4. Rest
    BY <1>0, <2>2, <2>3 DEF TypeRest
  <2> QED
    BY <1>8, <2>2, <2>4
<1>10. ASSUME NEW t \in Turn, Ingest(t) PROVE TypeOK'
  <2>1. Rest
    BY <1>0, <1>10, HandKept, SavesAssumption DEF Ingest, TypeRest, SavesAssumption
  <2> QED
    BY <1>8, <1>10, <2>1 DEF Ingest
<1>11. ASSUME NEW F \in SUBSET Fact, \A f \in F : Saved(f), HoldAll(F), Rest, UNCHANGED doubts,
              people' = people, chats' = chats
       PROVE  TypeOK'
  <2>1. \A g \in Fact : Kept(g) /\ (Saved(g) => fact'[g].person = fact[g].person)
    BY <1>11, HeldRows
  <2>2. fact' \in [Fact -> Row \cup {NoFact}]
    BY <1>11, <2>1 DEF HoldAll, Kept
  <2>3. RowType'
    BY <1>0, <1>11, <2>1, <2>2, RowTypeStep DEF Kept, Saved, RowType
  <2> QED
    BY <1>0, <1>1, <1>11, <2>3
<1>12. ASSUME NEW t \in Turn, EraseMessage(t) PROVE TypeOK'
  <2>1. Rest
    BY <1>0, <1>12, HandKept DEF EraseMessage, TypeRest
  <2> QED
    BY <1>11, <1>12, <2>1 DEF EraseMessage
<1>13. ASSUME NEW p \in people, Forget(p), HandType' PROVE TypeOK'
  <2>1. Rest
    BY <1>0, <1>13 DEF Forget, TypeRest
  <2>2. Of(p) \in SUBSET Fact /\ \A f \in Of(p) : Saved(f)
    BY DEF Of
  <2> QED
    BY <1>11, <1>13, <2>1, <2>2 DEF Forget
<1>14. ASSUME NEW F \in SUBSET Fact, \A f \in F : Saved(f), NEW p \in Person, Relink(F, p),
              p \in people', people \subseteq people', Rest, UNCHANGED doubts, chats' = chats
       PROVE  TypeOK'
  <2>1. \A g \in Fact : /\ Kept(g)
                        /\ Saved(g) => fact'[g].person = IF g \in F THEN p ELSE fact[g].person
    BY <1>14, RelinkedRows
  <2>2. fact' \in [Fact -> Row \cup {NoFact}]
    BY <1>14, <2>1 DEF Relink, Kept
  <2>3. \A g \in Fact : fact'[g] # NoFact =>
          /\ fact'[g].chat # NoChat => fact'[g].chat \in chats'
          /\ fact'[g].person \in people' \cup {Nobody}
    BY <1>0, <1>14, <2>1 DEF Kept, Saved, RowType
  <2>4. RowType'
    BY <1>14, <2>2, <2>3, RowTypeStep
  <2> QED
    BY <1>0, <1>1, <1>14, <2>4
<1>15. ASSUME NEW p \in Person, NEW n \in Name, Upsert(p, n) PROVE TypeOK'
  <2>1. PICK F \in SUBSET Fact : /\ \A f \in F : Saved(f)
                                 /\ Relink(F, p) /\ astray' \subseteq astray \cup F
    BY <1>15 DEF Upsert, Unlinked
  <2>2. Rest
    BY <1>0, <1>15, <2>1, HandKept DEF Upsert, TypeRest
  <2> QED
    BY <1>14, <1>15, <2>1, <2>2 DEF Upsert
<1>16. ASSUME NEW p \in people, NEW q \in people, p # q, Merge(p, q), HandType' PROVE TypeOK'
  <2>1. Of(p) \in SUBSET Fact /\ Of(q) \in SUBSET Fact /\ \A f \in Of(p) : Saved(f)
    BY DEF Of
  <2>2. Rest
    BY <1>0, <1>16, <2>1 DEF Merge, TypeRest
  <2> QED
    BY <1>0, <1>14, <1>16, <2>1, <2>2 DEF Merge, TypeRest
<1>17. ASSUME NEW p \in people, NEW q \in people \cup {Nobody}, p # q, Writes(p, q), HandType'
       PROVE  TypeOK'
  BY <1>13, <1>16, <1>17 DEF Writes
<1>19. ASSUME NEW p \in Person, NEW q \in Person \cup {Nobody}, AtOnce(p, q) PROVE TypeOK'
  <2>1. p \in people /\ q \in people \cup {Nobody} /\ p # q /\ Writes(p, q) /\ asked' = asked
    BY <1>19, SavesAssumption DEF AtOnce, Passes, SavesAssumption
  <2>2. UNCHANGED <<people, chatVars>>
    BY <2>1 DEF Writes, Merge, Forget
  <2>3. HandType'
    BY <1>0, <2>1, <2>2, HandKept
  <2> QED
    BY <1>17, <2>1, <2>3
<1>20. ASSUME NEW h \in Handler, NEW p \in Person, NEW q \in Person \cup {Nobody}, Waits(h, p, q)
       PROVE  TypeOK'
  <2>1. /\ p \in people /\ q \in people \cup {Nobody} /\ p # q
        /\ asked' = [asked EXCEPT ![h] = [of |-> p, to |-> q]]
        /\ UNCHANGED <<fact, persons, chatVars, histories>>
    BY <1>20, SavesAssumption DEF Waits, Passes, SavesAssumption
  <2>2. [of |-> p, to |-> q] \in Asking
    BY DEF Asking
  <2>3. HandType'
    BY <1>0, <2>1, <2>2 DEF HandType
  <2> QED
    BY <1>0, <1>8, <2>1, <2>3 DEF TypeRest
<1>21. ASSUME NEW h \in Handler, Waited(h) PROVE TypeOK'
  <2>1. PICK p \in people, q \in people \cup {Nobody} :
          p # q /\ Writes(p, q) /\ asked' = [asked EXCEPT ![h] = Idle]
    BY <1>21, WaitedFor
  <2>2. UNCHANGED <<people, chatVars>>
    BY <2>1 DEF Writes, Merge, Forget
  <2>3. HandType'
    BY <1>0, <2>1, <2>2, HandKept
  <2> QED
    BY <1>17, <2>1, <2>3
<1>22. ASSUME NEW h \in Handler, GivesUp(h) PROVE TypeOK'
  <2>1. /\ asked' = [asked EXCEPT ![h] = Idle]
        /\ UNCHANGED <<fact, persons, chatVars, histories>>
    BY <1>22 DEF GivesUp, Returns
  <2>2. HandType'
    BY <1>0, <2>1, HandKept
  <2> QED
    BY <1>0, <1>8, <2>1, <2>2 DEF TypeRest
<1>23. CASE UNCHANGED vars
  BY <1>0, <1>8, <1>23, HandKept DEF vars, TypeRest
<1> QED
  BY <1>2, <1>3, <1>4, <1>5, <1>6, <1>7, <1>9, <1>10, <1>12, <1>15, <1>18, <1>19, <1>20,
     <1>21, <1>22, <1>23 DEF Next

-----------------------------------------------------------------------------
(* The invariant, fact by fact. *)

\* What is doubted is held, of one fact.
Wary(g) == Saved(g) /\ ~fact[g].held /\ doubts[g] # {} => g \in late /\ doubts[g] = {"web"}

\* A guest's fact is home.
AtHome(g) == g \in guests => /\ Saved(g)
                             /\ g \notin widened \cup late /\ fact[g].chat # NoChat =>
                                  fact[g].scope = "conversation"

\* A fact is linked to somebody neither merged away nor, unseen by the owner, forgotten.
Linked(g) == g \notin astray /\ Saved(g) /\ fact[g].person # Nobody =>
               /\ merged[fact[g].person] = Nobody
               /\ ~fact[g].held /\ fact[g].person \in forgotten => g \in reviewed

Good(g) == Wary(g) /\ AtHome(g) /\ Linked(g)

LEMMA GoodIsInv ==
  TypeOK => ((\A g \in Fact : Good(g)) <=> UntrustedIsHeld /\ GuestScoped /\ OnTheLine)
<1> SUFFICES ASSUME TypeOK
             PROVE  (\A g \in Fact : Good(g)) <=> UntrustedIsHeld /\ GuestScoped /\ OnTheLine
  OBVIOUS
<1>1. (\A g \in Fact : Wary(g)) <=> UntrustedIsHeld
  BY Zenon DEF Wary, UntrustedIsHeld, InUse
<1>2. guests \subseteq Fact
  BY TypeParts DEF TypeRest
<1>3. (\A g \in Fact : AtHome(g)) <=> GuestScoped
  BY <1>2, Zenon DEF AtHome, GuestScoped
<1>4. (\A g \in Fact : Linked(g)) <=> OnTheLine
  BY Zenon DEF Linked, OnTheLine
<1> QED
  BY <1>1, <1>3, <1>4, Zenon DEF Good

\* A fact the action leaves alone stays good.
LEMMA LeftAlone ==
  ASSUME NEW g \in Fact, Good(g), fact'[g] = fact[g], doubts'[g] = doubts[g],
         g \in guests' => g \in guests, widened \subseteq widened', late \subseteq late',
         UNCHANGED <<merged, forgotten>>, reviewed \subseteq reviewed', astray \subseteq astray'
  PROVE  Good(g)'
  BY DEF Good, Wary, AtHome, Linked, Saved

\* A fact that is held, or stays as it was, stays good.
LEMMA HeldStaysGood ==
  ASSUME TypeOK, NEW g \in Fact, Good(g), NEW F, \A f \in F : Saved(f), HoldAll(F),
         UNCHANGED <<merged, doubts, guests, widened, late, astray>>,
         g \in reviewed \ F => g \in reviewed',
         forgotten \subseteq forgotten',
         \A p \in forgotten' \ forgotten : Saved(g) /\ fact[g].person = p => g \in F
  PROVE  Good(g)'
<1>1. /\ Kept(g)
      /\ Saved(g) => /\ fact'[g].scope = fact[g].scope /\ fact'[g].person = fact[g].person
                     /\ g \notin F => fact'[g].held = fact[g].held
                     /\ g \in F => fact'[g].held
  BY HeldRows
<1>2. Saved(g)' => Saved(g)
  BY <1>1 DEF Kept, Saved
<1>3. Wary(g)' /\ AtHome(g)'
  BY <1>1, <1>2 DEF Good, Wary, AtHome, Kept, Saved
<1>4. Linked(g)'
  BY <1>1, <1>2 DEF Good, Linked, Kept, Saved
<1> QED
  BY <1>3, <1>4 DEF Good

\* A fact that is linked to another person, and is otherwise as it was.
LEMMA RelinkedStaysGood ==
  ASSUME TypeOK, NEW g \in Fact, Good(g), NEW F, \A f \in F : Saved(f),
         NEW p \in Person, Relink(F, p), UNCHANGED <<doubts, guests, widened, late, reviewed>>,
         Linked(g)'
  PROVE  Good(g)'
<1>1. /\ Kept(g)
      /\ Saved(g) => fact'[g].scope = fact[g].scope /\ fact'[g].held = fact[g].held
  BY RelinkedRows
<1> QED
  BY <1>1 DEF Good, Wary, AtHome, Kept, Saved

LEMMA GoodStep == ASSUME TypeOK, InHand, [Next]_vars, NEW g \in Fact, \A h \in Fact : Good(h)
                  PROVE  Good(g)'
<1> USE DEF persons, chatVars, miner, histories
<1>0. Good(g)
  OBVIOUS
<1>1. ASSUME NEW f \in Fact, NEW b \in FactBody, SaveDirect(f, b) PROVE Good(g)'
  <2>1. /\ ~Saved(f) /\ fact'[f] \in Row /\ fact'[f].person = Nobody
        /\ \A h \in Fact \ {f} : fact'[h] = fact[h] /\ doubts'[h] = doubts[h]
        /\ b.guests /\ fact'[f].chat # NoChat => fact'[f].scope = "conversation"
        /\ ~fact'[f].held => doubts'[f] = {}
    BY <1>1, SavedRow
  <2>2. /\ UNCHANGED <<persons, widened, late, reviewed, astray>>
        /\ guests' = IF b.guests THEN guests \cup {f} ELSE guests
    BY <1>1 DEF SaveDirect
  <2>3. CASE g # f
    BY <2>1, <2>2, <2>3, LeftAlone
  <2>4. CASE g = f
    <3>1. Saved(g)' /\ g \notin guests
      BY <1>0, <2>1, <2>4, NoFactAssumption DEF Saved, Good, AtHome, NoFactAssumption
    <3>2. Wary(g)'
      BY <2>1, <2>4 DEF Wary
    <3>3. AtHome(g)'
      BY <2>1, <2>2, <2>4, <3>1 DEF AtHome
    <3>4. Linked(g)'
      BY <2>1, <2>4 DEF Linked
    <3> QED
      BY <3>2, <3>3, <3>4 DEF Good
  <2> QED
    BY <2>3, <2>4
<1>2. ASSUME NEW f \in Fact, MinerSaves(f) PROVE Good(g)'
  <2>1. PICK l \in saving :
          /\ fact' = [fact EXCEPT ![f] = l.row] /\ Doubted(f, l.doubts)
          /\ guests' = IF l.guest THEN guests \cup {f} ELSE guests
          /\ late' = IF l.late THEN late \cup {f} ELSE late
          /\ astray' = IF l.row.person \in forgotten
                          \/ (l.row.person # Nobody /\ merged[l.row.person] # Nobody)
                       THEN astray \cup {f} ELSE astray
    BY <1>2 DEF MinerSaves
  <2>2. ~Saved(f) /\ UNCHANGED <<persons, asked, widened, reviewed>>
    BY <1>2 DEF MinerSaves
  <2>3. Careful(l) /\ l.row \in Row /\ l.doubts \in SUBSET {"web", "other"}
    BY DEF InHand, TypeOK, DrawnLine
  <2>4. fact'[f] = l.row /\ \A h \in Fact \ {f} : fact'[h] = fact[h]
    BY <2>1, <2>3, Inserted
  <2>5. doubts'[f] = l.doubts /\ \A h \in Fact \ {f} : doubts'[h] = doubts[h]
    BY <2>1, <2>3, DoubtType
  <2>6. CASE g # f
    BY <2>1, <2>2, <2>4, <2>5, <2>6, LeftAlone
  <2>7. CASE g = f
    <3>1. Saved(g)' /\ g \notin guests
      BY <1>0, <2>2, <2>3, <2>4, <2>7, NoFactAssumption DEF Saved, Good, AtHome, NoFactAssumption
    <3>2. Wary(g)'
      BY <2>1, <2>3, <2>4, <2>5, <2>7 DEF Wary, Careful
    <3>3. AtHome(g)'
      BY <2>1, <2>3, <2>4, <2>7, <3>1 DEF AtHome, Careful
    <3>4. Linked(g)'
      BY <2>1, <2>2, <2>4, <2>7 DEF Linked
    <3> QED
      BY <3>2, <3>3, <3>4 DEF Good
  <2> QED
    BY <2>6, <2>7
<1>3. ASSUME NEW f \in Fact, Approve(f) PROVE Good(g)'
  <2>1. /\ Saved(f) /\ fact' = [fact EXCEPT ![f].held = FALSE] /\ Doubted(f, {})
        /\ UNCHANGED <<persons, asked, chatVars, guests, widened, late, astray>>
        /\ reviewed' = IF OfForgotten(f) THEN reviewed \cup {f} ELSE reviewed
    BY <1>3 DEF Approve
  <2>2. /\ fact'[f] \in Row /\ fact'[f].chat = fact[f].chat /\ fact'[f].person = fact[f].person
        /\ \A h \in Fact \ {f} : fact'[h] = fact[h]
    BY <2>1, FieldSet
  <2>3. doubts'[f] = {} /\ \A h \in Fact \ {f} : doubts'[h] = doubts[h]
    BY <2>1, DoubtType
  <2>4. CASE g # f
    BY <2>1, <2>2, <2>3, <2>4, LeftAlone
  <2>5. CASE g = f
    <3>1. Wary(g)'
      BY <2>3, <2>5 DEF Wary
    <3>2. AtHome(g)'
      BY <1>0, <2>1, <2>2, <2>5, HeldCleared, NoFactAssumption
         DEF Good, AtHome, Saved, NoFactAssumption
    <3>3. ASSUME g \notin astray, fact[g].person # Nobody
          PROVE  /\ merged[fact[g].person] = Nobody
                 /\ fact[g].person \in forgotten => g \in reviewed'
      <4>1. fact[g].person \in Person
        BY <2>1, <2>5, <3>3, RowFields
      <4>2. merged[fact[g].person] = Nobody
        BY <1>0, <2>1, <2>5, <3>3 DEF Good, Linked
      <4>3. fact[g].person \in forgotten => OfForgotten(g)
        BY <3>3, <4>1, LineOf DEF OfForgotten
      <4> QED
        BY <2>1, <2>5, <4>2, <4>3
    <3>4. Linked(g)'
      BY <2>1, <2>2, <2>5, <3>3 DEF Linked
    <3> QED
      BY <3>1, <3>2, <3>4 DEF Good
  <2> QED
    BY <2>4, <2>5
<1>4. ASSUME NEW f \in Fact, Quarantine(f) PROVE Good(g)'
  <2>1. HoldAll({f}) /\ Saved(f) /\ UNCHANGED <<persons, asked, chatVars, histories>>
    BY <1>4 DEF Quarantine, InUse
  <2> QED
    BY <1>0, <2>1, HeldStaysGood
<1>5. ASSUME NEW f \in Fact, NEW s \in {"global", "conversation"}, SetScope(f, s) PROVE Good(g)'
  <2>1. /\ Saved(f) /\ fact' = [fact EXCEPT ![f].scope = s]
        /\ UNCHANGED <<persons, asked, chatVars, doubts, guests, late, reviewed, astray>>
        /\ widened' = IF s = "global" THEN widened \cup {f} ELSE widened \ {f}
    BY <1>5 DEF SetScope
  <2>2. /\ fact'[f] \in Row /\ fact'[f].chat = fact[f].chat /\ fact'[f].person = fact[f].person
        /\ \A h \in Fact \ {f} : fact'[h] = fact[h]
    BY <2>1, FieldSet
  <2>3. fact'[f].scope = s /\ fact'[f].held = fact[f].held
    BY <2>1, ScopeSet
  <2>4. CASE g # f
    BY <1>0, <2>1, <2>2, <2>4 DEF Good, Wary, AtHome, Linked, Saved
  <2>5. CASE g = f
    BY <1>0, <2>1, <2>2, <2>3, <2>5, NoFactAssumption
       DEF Good, Wary, AtHome, Linked, Saved, NoFactAssumption
  <2> QED
    BY <2>4, <2>5
<1>6. ASSUME NEW f \in Fact, NEW t \in Turn, Bind(f, t) PROVE Good(g)'
  <2>1. /\ Saved(f) /\ fact' = [fact EXCEPT ![f].source = t]
        /\ ~Untrusted(t) /\ ~t.web
        /\ Doubted(f, doubts[f] \cup If(t.web, "web") \cup If(Untrusted(t), "other"))
        /\ UNCHANGED <<persons, asked, chatVars, guests, widened, late, reviewed, astray>>
    BY <1>6 DEF Bind, InUse, BindRefused
  <2>2. doubts' = [doubts EXCEPT ![f] = doubts[f]]
    BY <2>1 DEF Doubted, If
  <2>3. \A h \in Fact : doubts'[h] = doubts[h]
    BY <2>2 DEF TypeOK
  <2>4. /\ fact'[f] \in Row /\ fact'[f].chat = fact[f].chat /\ fact'[f].person = fact[f].person
        /\ \A h \in Fact \ {f} : fact'[h] = fact[h]
    BY <2>1, FieldSet
  <2>5. fact'[f].scope = fact[f].scope /\ fact'[f].held = fact[f].held
    BY <2>1, SourceSet
  <2>6. CASE g # f
    BY <2>1, <2>3, <2>4, <2>6, LeftAlone
  <2>7. CASE g = f
    BY <1>0, <2>1, <2>3, <2>4, <2>5, <2>7, NoFactAssumption
       DEF Good, Wary, AtHome, Linked, Saved, NoFactAssumption
  <2> QED
    BY <2>6, <2>7
<1>7. CASE MinerReads \/ MinerDrawsOne \/ MinerEnds
  BY <1>0, <1>7, LeftAlone, MinerDrawsRest DEF MinerReads, MinerEnds
<1>8. ASSUME NEW t \in Turn, Ingest(t) PROVE Good(g)'
  BY <1>0, <1>8, LeftAlone DEF Ingest
<1>9. ASSUME NEW t \in Turn, EraseMessage(t) PROVE Good(g)'
  BY <1>0, <1>9, HeldStaysGood DEF EraseMessage
<1>10. ASSUME NEW p \in Person, Forget(p) PROVE Good(g)'
  <2>1. /\ HoldAll(Of(p)) /\ forgotten' = forgotten \cup {p} /\ reviewed' = reviewed \ Of(p)
        /\ UNCHANGED <<merged, doubts, guests, widened, late, astray>>
    BY <1>10 DEF Forget
  <2>2. (\A f \in Of(p) : Saved(f)) /\ (Saved(g) /\ fact[g].person = p => g \in Of(p))
    BY DEF Of
  <2> QED
    BY <1>0, <2>1, <2>2, HeldStaysGood
<1>11. ASSUME NEW p \in Person, NEW n \in Name, Upsert(p, n) PROVE Good(g)'
  <2>1. PICK F \in SUBSET Fact :
          /\ \A f \in F : Saved(f)
          /\ Relink(F, p)
          /\ astray' = IF p \in forgotten \/ merged[p] # Nobody THEN astray \cup F ELSE astray
    BY <1>11 DEF Upsert, Unlinked
  <2>2. UNCHANGED <<merged, forgotten, doubts, guests, widened, late, reviewed>>
    BY <1>11 DEF Upsert
  <2>3. /\ Kept(g)
        /\ Saved(g) => /\ fact'[g].held = fact[g].held
                       /\ fact'[g].person = IF g \in F THEN p ELSE fact[g].person
    BY <2>1, RelinkedRows
  <2>4. Linked(g)'
    BY <1>0, <2>1, <2>2, <2>3 DEF Good, Linked, Kept, Saved
  <2> QED
    BY <1>0, <2>1, <2>2, <2>4, RelinkedStaysGood
<1>12. ASSUME NEW p \in Person, NEW q \in Person, p # q, Merge(p, q) PROVE Good(g)'
  <2>1. /\ p # q /\ Relink(Of(p), q)
        /\ merged' = [merged EXCEPT ![p] = q]
        /\ astray' = astray \cup IF merged[q] # Nobody THEN Of(p) \cup Of(q)
                                ELSE IF q \in forgotten THEN Of(p) ELSE {}
        /\ UNCHANGED <<forgotten, doubts, guests, widened, late, reviewed>>
    BY <1>12 DEF Merge
  <2>2. (\A f \in Of(p) : Saved(f)) /\ (Saved(g) => (g \in Of(p) <=> fact[g].person = p))
    BY DEF Of
  <2>3. /\ Kept(g)
        /\ Saved(g) => /\ fact'[g].held = fact[g].held
                       /\ fact'[g].person = IF g \in Of(p) THEN q ELSE fact[g].person
    BY <2>1, <2>2, RelinkedRows
  <2>4. \A r \in Person \ {p} : merged'[r] = merged[r]
    BY <2>1 DEF TypeOK
  <2>5. Saved(g) /\ fact[g].person # Nobody => fact[g].person \in Person
    BY RowFields
  <2>6. Linked(g)'
    BY <1>0, <2>1, <2>2, <2>3, <2>4, <2>5 DEF Good, Linked, Kept, Saved
  <2> QED
    BY <1>0, <2>1, <2>2, <2>6, RelinkedStaysGood
<1>13. ASSUME NEW p \in Person, NEW q \in Person \cup {Nobody}, p # q, Writes(p, q)
       PROVE  Good(g)'
  BY <1>10, <1>12, <1>13 DEF Writes
<1>14. ASSUME NEW p \in Person, NEW q \in Person \cup {Nobody}, AtOnce(p, q) PROVE Good(g)'
  BY <1>13, <1>14 DEF AtOnce, Passes
<1>15. ASSUME NEW h \in Handler, Waited(h) PROVE Good(g)'
  <2>1. PICK p \in people, q \in people \cup {Nobody} : p # q /\ Writes(p, q)
    BY <1>15, WaitedFor
  <2> QED
    BY <1>13, <2>1 DEF TypeOK
<1>16. ASSUME UNCHANGED <<fact, persons, histories>> PROVE Good(g)'
  BY <1>0, <1>16, LeftAlone
<1>17. ASSUME NEW h \in Handler, NEW p \in Person, NEW q \in Person \cup {Nobody}, Waits(h, p, q)
       PROVE  Good(g)'
  BY <1>16, <1>17 DEF Waits
<1>18. CASE UNCHANGED vars
  BY <1>16, <1>18 DEF vars
<1>19. ASSUME NEW h \in Handler, GivesUp(h) PROVE Good(g)'
  BY <1>16, <1>19 DEF GivesUp
<1> QED
  BY <1>1, <1>2, <1>3, <1>4, <1>5, <1>6, <1>7, <1>8, <1>9, <1>11, <1>14, <1>15, <1>17, <1>18,
     <1>19 DEF Next

\* What the miner has in hand was careful when it was drawn.
LEMMA InHandStep == ASSUME TypeOK, InHand, [Next]_vars PROVE InHand'
<1> USE DEF persons, chatVars, miner, histories
<1>1. CASE MinerDrawsOne
  BY <1>1, MinedBy DEF InHand, Ready, Careful
<1>2. CASE saving' \subseteq saving
  BY <1>2 DEF InHand, Careful
<1>3. MinerDrawsOne \/ saving' \subseteq saving
  BY DEF Next, vars, SaveDirect, MinerSaves, Approve, Quarantine, SetScope, Bind, MinerReads,
         MinerEnds, Ingest, EraseMessage, Upsert, AtOnce, Waits, Waited, GivesUp, Writes, Merge,
         Forget
<1> QED
  BY <1>1, <1>2, <1>3

-----------------------------------------------------------------------------
(* Theorems. *)

LEMMA InvInit == Init => IInv
<1> SUFFICES ASSUME Init PROVE IInv
  OBVIOUS
<1>1. TypeOK
  BY TypeInit
<1>2. ASSUME NEW g \in Fact PROVE Good(g)
  BY DEF Init, Good, Wary, AtHome, Linked, Saved
<1>3. InHand
  BY DEF Init, InHand
<1> QED
  BY <1>1, <1>2, <1>3, GoodIsInv DEF IInv

LEMMA InvStep == IInv /\ [Next]_vars => IInv'
<1> SUFFICES ASSUME IInv, [Next]_vars PROVE IInv'
  OBVIOUS
<1>1. TypeOK /\ TypeOK'
  BY TypeStep DEF IInv
<1>2. \A g \in Fact : Good(g)
  BY <1>1, GoodIsInv DEF IInv
<1>3. ASSUME NEW g \in Fact PROVE Good(g)'
  BY <1>1, <1>2, GoodStep DEF IInv
<1>7. InHand'
  BY <1>1, InHandStep DEF IInv
<1>4. (\A g \in Fact : Good(g))'
  BY <1>3
<1>5. UntrustedIsHeld' /\ OnTheLine'
  BY <1>4, Zenon DEF Good, Wary, Linked, UntrustedIsHeld, OnTheLine, InUse
<1>6. GuestScoped'
  <2>1. guests' \subseteq Fact
    BY <1>1 DEF TypeOK
  <2> QED
    BY <1>4, <2>1, Zenon DEF Good, AtHome, GuestScoped
<1> QED
  BY <1>1, <1>5, <1>6, <1>7 DEF IInv

LEMMA Invariant == Spec => []IInv
<1>1. Init => IInv
  BY InvInit
<1>2. IInv /\ [Next]_vars => IInv'
  BY InvStep
<1> QED
  BY <1>1, <1>2, PTL DEF Spec

\* Every variable has its type.
THEOREM Types == Spec => []TypeOK
  BY Invariant, PTL DEF IInv

\* A doubted fact is in use only after the owner approved it, whoever saved it and
\* however its turn was found; but for the web stamp of a turn erased while the miner
\* had it.
THEOREM DoubtedIsHeld == Spec => []UntrustedIsHeld
  BY Invariant, PTL DEF IInv

\* What a guest said is seen in its own chat only, until the owner makes it global; but
\* for a turn erased while the miner had it, and a save that named no chat.
THEOREM GuestsStayHome == Spec => []GuestFactStaysHome
<1>1. IInv => GuestFactStaysHome
  <2> SUFFICES ASSUME IInv, NEW f \in guests \ (widened \cup late), NEW c \in Chat \cup {NoChat},
                      fact[f].chat # NoChat, Visible(f, c)
               PROVE  c = fact[f].chat
    BY DEF GuestFactStaysHome
  <2>1. fact[f].scope = "conversation"
    BY DEF IInv, GuestScoped
  <2> QED
    BY <2>1 DEF Visible
<1> QED
  BY <1>1, Invariant, PTL

\* A fact in use of somebody forgotten was approved since, through merges and renames
\* of any length and whatever waits for the write lock meanwhile; but for a link written
\* to a row by then merged away or forgotten.
THEOREM ForgottenIsSeen == Spec => []ForgottenIsReviewed
<1>1. IInv => ForgottenIsReviewed
  <2> SUFFICES ASSUME IInv, NEW f \in Fact, InUse(f), OfForgotten(f), f \notin astray
               PROVE  f \in reviewed
    BY DEF ForgottenIsReviewed
  <2>1. Saved(f) /\ ~fact[f].held /\ fact[f].person # Nobody
    BY DEF InUse, OfForgotten
  <2>2. merged[fact[f].person] = Nobody /\ (fact[f].person \in forgotten => f \in reviewed)
    BY <2>1 DEF IInv, OnTheLine
  <2>3. fact[f].person \in Person
    BY <2>1, RowFields DEF IInv
  <2>4. Line(fact[f].person) = {fact[f].person}
    BY <2>2, <2>3, LineOf
  <2> QED
    BY <2>2, <2>4 DEF OfForgotten
<1> QED
  BY <1>1, Invariant, PTL
=============================================================================
