------------------------------- MODULE Saves -------------------------------
(***************************************************************************)
(* What a fact takes from where it came from: whether it is held for       *)
(* review, the chat it stays in and the person it is linked to             *)
(* (memory_service/ledger.py add_fact to set_scope, walls.py, the speaker  *)
(* part of mining.py, persons.py binding, upsert, forget and merge).       *)
(*                                                                         *)
(* A fact is saved directly by a client, or drawn by the miner from a      *)
(* window of turns it read earlier.  Meanwhile the owner erases turns,     *)
(* approves facts, rebinds them, and names, merges and forgets people.     *)
(*                                                                         *)
(* A turn is a record of who spoke (its class and, of a guest or a model,  *)
(* the name), the web stamp, and the identity: the person it names and the *)
(* method that found them.  Reasons of a hold, confidence and superseded   *)
(* facts are left to Review.                                               *)
(***************************************************************************)
EXTENDS Integers, FiniteSets

CONSTANTS
  Fact, Person, Name,
  Turn,                      \* the turns of Home
  Chat, Home,
  Nobody, NoName, NoChat, NoTurn, NoFact,
  Handler,                   \* threads whose merge or forget waits for the write lock
  MaxWords,                  \* distinctive words a fact and a turn may share
  MaxTurns                   \* turns ever ingested

Class == {"owner", "model", "guest", "guest-unknown", "record", "unrecognised"}
Method == {"introduced", "owner-correction", "voice-match", "voice-guess", "by-elimination"}
TurnRow == [speaker : Class, name : Name \cup {NoName}, web : BOOLEAN,
            person : Person \cup {Nobody}, method : Method]

ASSUME SavesAssumption ==
  /\ Turn \subseteq TurnRow /\ NoTurn \notin TurnRow
  /\ Home \in Chat /\ NoChat \notin Chat
  /\ Nobody \notin Person /\ NoName \notin Name
  /\ MaxWords \in Nat /\ MaxTurns \in Nat

Row == [source : Turn \cup {NoTurn}, chat : Chat \cup {NoChat}, scope : {"global", "conversation"},
        held : BOOLEAN, person : Person \cup {Nobody}]

ASSUME NoFactAssumption == NoFact \notin Row

\* A line of the miner whose provenance was read: its row, and what the histories note
\* of it once it is a fact.
DrawnLine == [row : Row, doubts : SUBSET {"web", "other"}, guest : BOOLEAN, late : BOOLEAN]

VARIABLES
  fact,       \* fact[f]: its row
  turns,      \* the messages of Home
  sent,       \* turns ever ingested
  chats,      \* conversations with a row
  window,     \* the turns the miner has read, {} when it is idle
  saving,     \* the line the miner is about to insert, none or one
  asked,      \* asked[h]: the merge or forget that passed its check and waits
  people, merged, forgotten,  \* persons: the rows, merged_into, forgotten_at
  alias,      \* alias[n]: the person a name belongs to
  doubts,     \* history: doubts[f], why f was not to be trusted, none once approved
  guests,     \* history: facts from a guest's turn, or saved with guests in the room
  widened,    \* history: facts the owner made global
  late,       \* history: facts drawn from a turn erased since the miner read it
  reviewed,   \* history: facts approved since their person was forgotten
  astray      \* history: facts linked to a person who was merged away or forgotten
              \* by the time the link was written

persons == <<people, merged, forgotten, alias>>
miner == <<window, saving>>
chatVars == <<turns, sent, chats, miner>>
histories == <<doubts, guests, widened, late, reviewed, astray>>
vars == <<fact, persons, asked, chatVars, histories>>

\* A merge of one person into another, or a forget, into nobody.
Asking == [of : Person \cup {Nobody}, to : Person \cup {Nobody}]
Idle == [of |-> Nobody, to |-> Nobody]

TypeOK ==
  /\ fact \in [Fact -> Row \cup {NoFact}]
  /\ turns \subseteq sent /\ sent \subseteq Turn /\ window \subseteq sent
  /\ chats \subseteq Chat /\ (sent # {} => Home \in chats)
  /\ \A f \in Fact : fact[f] # NoFact /\ fact[f].chat # NoChat => fact[f].chat \in chats
  /\ \A f \in Fact : fact[f] # NoFact => fact[f].person \in people \cup {Nobody}
  /\ people \subseteq Person /\ forgotten \subseteq people
  /\ merged \in [Person -> people \cup {Nobody}] /\ \A p \in Person : merged[p] # p
  /\ alias \in [Name -> people \cup {Nobody}]
  /\ saving \subseteq DrawnLine
  /\ \A l \in saving : l.row.chat \in chats /\ l.row.person \in people \cup {Nobody}
  /\ asked \in [Handler -> Asking]
  /\ \A h \in Handler : asked[h] # Idle =>
       asked[h].of \in people /\ asked[h].to \in (people \cup {Nobody}) \ {asked[h].of}
  /\ doubts \in [Fact -> SUBSET {"web", "other"}]
  /\ \A H \in {guests, widened, late, reviewed, astray} : H \subseteq Fact

Init ==
  /\ fact = [f \in Fact |-> NoFact]
  /\ turns = {} /\ sent = {} /\ chats = {} /\ window = {}
  /\ saving = {} /\ asked = [h \in Handler |-> Idle]
  /\ people = {} /\ forgotten = {}
  /\ merged = [p \in Person |-> Nobody] /\ alias = [n \in Name |-> Nobody]
  /\ doubts = [f \in Fact |-> {}]
  /\ guests = {} /\ widened = {} /\ late = {} /\ reviewed = {} /\ astray = {}

Saved(f) == fact[f] # NoFact
InUse(f) == Saved(f) /\ ~fact[f].held

\* scope_filter: what a recall from chat c may see, and from no chat the profile too.
Visible(f, c) == InUse(f) /\ (fact[f].scope = "global" \/ (c # NoChat /\ fact[f].chat = c))

-----------------------------------------------------------------------------
(* People: who a turn's identity links a fact to, and what is on record of *)
(* the person.                                                             *)

Chain[n \in 0 .. 7] ==
  [p \in Person |->
     {p} \cup IF n = 0 \/ merged[p] = Nobody THEN {} ELSE Chain[n - 1][merged[p]]]
Line(p) == Chain[7][p]

StrongMethod == {"introduced", "owner-correction", "voice-match"}

\* persons.binding.
Binding(t) ==
  LET last == {p \in people : p \in Line(t.person) /\ merged[p] = Nobody} IN
  IF \/ t.person \notin people \/ t.method \notin StrongMethod
     \/ Line(t.person) \cap forgotten # {} \/ last = {}
  THEN Nobody ELSE CHOOSE p \in last : TRUE

\* Somebody on the line of the fact's person was forgotten.
OfForgotten(f) == fact[f].person # Nobody /\ Line(fact[f].person) \cap forgotten # {}

\* model_label_collision.
ModelLabel(n) == \E t \in turns : t.speaker = "model" /\ t.name = n

\* link_guest_facts: the facts of the turns the person's names spoke.
Unlinked(p, names) ==
  {f \in Fact : /\ Saved(f) /\ fact[f].person = Nobody
                /\ fact[f].source \in turns
                /\ fact[f].source.speaker = "guest" /\ names[fact[f].source.name] = p}

Relink(F, p) == fact' = [f \in Fact |-> IF f \in F THEN [fact[f] EXCEPT !.person = p] ELSE fact[f]]

\* upsert: refused when the name is another person's or a model's.
Upsert(p, n) ==
  /\ ~ModelLabel(n) /\ alias[n] \in {Nobody, p}
  /\ people' = people \cup {p}
  /\ alias' = [alias EXCEPT ![n] = p]
  /\ LET F == Unlinked(p, alias') IN
       /\ Relink(F, p)
       /\ astray' = IF p \in forgotten \/ merged[p] # Nobody THEN astray \cup F ELSE astray
  /\ UNCHANGED <<merged, forgotten, asked, chatVars, doubts, guests, widened, late, reviewed>>

Of(p) == {f \in Fact : Saved(f) /\ fact[f].person = p}

\* Mutant of Merge: the facts stay with the loser.
MergeLeavesFacts(p, q) ==
  /\ alias' = [n \in Name |-> IF alias[n] = p THEN q ELSE alias[n]]
  /\ merged' = [merged EXCEPT ![p] = q]
  /\ UNCHANGED <<fact, people, forgotten, chatVars, histories>>

\* The writes of merge: p into q, who may have been merged away as well, or forgotten
\* since the check.
Merge(p, q) ==
  /\ alias' = [n \in Name |-> IF alias[n] = p THEN q ELSE alias[n]]
  /\ Relink(Of(p), q)
  /\ merged' = [merged EXCEPT ![p] = q]
  /\ astray' = astray \cup IF merged[q] # Nobody THEN Of(p) \cup Of(q)
                          ELSE IF q \in forgotten THEN Of(p) ELSE {}
  /\ UNCHANGED <<people, forgotten, chatVars, doubts, guests, widened, late, reviewed>>

HoldAll(F) == fact' = [f \in Fact |-> IF f \in F THEN [fact[f] EXCEPT !.held = TRUE] ELSE fact[f]]

\* The writes of forget, as far as facts go.
Forget(p) ==
  /\ forgotten' = forgotten \cup {p}
  /\ HoldAll(Of(p))
  /\ reviewed' = reviewed \ Of(p)
  /\ UNCHANGED <<people, merged, alias, chatVars, doubts, guests, widened, late, astray>>

\* A request to merge p into q, or to forget p (q is nobody), is checked against the rows
\* it read; then it writes.
Passes(p, q) == p # q /\ ({p, q} \ {Nobody}) \subseteq people \ forgotten
Writes(p, q) == \/ q # Nobody /\ Merge(p, q)
                \/ q = Nobody /\ Forget(p)

\* Nobody holds the write lock.
AtOnce(p, q) == Passes(p, q) /\ Writes(p, q) /\ UNCHANGED asked

\* Somebody does, and may change what the check saw before it is let go.
Waits(h, p, q) ==
  /\ asked[h] = Idle /\ Passes(p, q)
  /\ asked' = [asked EXCEPT ![h] = [of |-> p, to |-> q]]
  /\ UNCHANGED <<fact, persons, chatVars, histories>>

Returns(h) == asked[h] # Idle /\ asked' = [asked EXCEPT ![h] = Idle]

Waited(h) == Returns(h) /\ Writes(asked[h].of, asked[h].to)

\* The lock is not had in time, or the process stops.
GivesUp(h) == Returns(h) /\ UNCHANGED <<fact, persons, chatVars, histories>>

-----------------------------------------------------------------------------
(* A save. *)

\* is_trusted, of an origin (the owner, an MCP adapter, another agent) and an app.
Origin == {"user", "mcp", "agent"}
App == {"registered", "other"}
Trusted(o, app) == o = "user" \/ (o # "mcp" /\ app = "registered")

\* source_provenance: read when the fact is added.
Provenance(t) ==
  IF t \in turns THEN [found |-> TRUE, web |-> t.web, person |-> Binding(t)]
  ELSE [found |-> FALSE, web |-> FALSE, person |-> Nobody]

\* Mutant of FromGuest: only the guests the save names.
FromGuestPresent(t, guestsPresent) == guestsPresent

\* The turn is a guest's, or the save names guests in the room.
FromGuest(t, guestsPresent) ==
  guestsPresent \/ (t \in turns /\ t.speaker \in {"guest", "guest-unknown"})

\* The row add_fact makes: a reason of the caller's, the origin, the web and the guests
\* hold it.
AddFact(t, chat, o, app, web, guestsPresent, reason) ==
  [source |-> t, chat |-> chat,
   scope |-> IF FromGuest(t, guestsPresent) /\ chat # NoChat THEN "conversation" ELSE "global",
   held |-> reason \/ ~Trusted(o, app) \/ web \/ Provenance(t).web \/ guestsPresent,
   person |-> Provenance(t).person]

Doubted(f, D) == doubts' = [doubts EXCEPT ![f] = D]
If(b, d) == IF b THEN {d} ELSE {}

\* A client's save: the chat it names, whether its round read the web, and whether
\* guests were present.
FactBody == [origin : Origin, app : App, chat : Chat \cup {NoChat}, web : BOOLEAN, guests : BOOLEAN]

\* open_conversation, for a save with guests in a chat not ingested yet.
Opened(b) == If(b.guests /\ b.chat # NoChat, b.chat)

\* _save_conversation.
SaveConversation(b) == IF b.chat \in chats \cup Opened(b) THEN b.chat ELSE NoChat

\* POST /v1/facts: it names no turn, so nothing is read of one before the insert.
SaveDirect(f, b) ==
  /\ ~Saved(f)
  /\ fact' = [fact EXCEPT ![f] = AddFact(NoTurn, SaveConversation(b), b.origin, b.app,
                                         b.web, b.guests, FALSE)]
  /\ chats' = chats \cup Opened(b)
  /\ Doubted(f, If(b.web, "web")
                \cup If(\/ b.origin = "mcp" \/ b.guests
                        \/ b.origin = "agent" /\ b.app # "registered", "other"))
  /\ guests' = IF b.guests THEN guests \cup {f} ELSE guests
  /\ UNCHANGED <<turns, sent, miner, persons, asked, widened, late, reviewed, astray>>

-----------------------------------------------------------------------------
(* The miner. *)

\* walls.speaker_trust_flag.
Untrusted(t) == t.speaker \in {"guest", "guest-unknown", "unrecognised"}
Human(t) == t.speaker \notin {"model", "unrecognised"}

\* A chunk with nobody's speech in it is passed over.
MinerReads ==
  /\ window = {} /\ \E t \in turns : Human(t)
  /\ window' = turns
  /\ UNCHANGED <<fact, persons, asked, turns, sent, chats, saving, histories>>

\* Mutant of RetryHolds: any shared word will do.
RetrySharesAWord(t, words) == words[t] > 0

\* _repair_binding_refused: the turn shares words with the fact, and no untrusted
\* turn shares as many.
RetryHolds(t, words) ==
  words[t] > 0 /\ \A u \in window \ {t} : Untrusted(u) => words[u] < words[t]

\* The turn a retry binds a fact to; there is one when untrusted speech is about.
Retried(t, words) ==
  IF t # NoTurn /\ (\E u \in window : Untrusted(u)) /\ RetryHolds(t, words) THEN t ELSE NoTurn

\* The speaker of the bound turn; of no turn, anybody in the window.
SpeakerFlag(t) ==
  IF t = NoTurn THEN \E u \in window : Untrusted(u) ELSE Untrusted(t)

\* Whose words the fact is made of: an untrusted turn has the most of them.
GuestsWords(words) ==
  \E u \in window : Untrusted(u) /\ words[u] > 0 /\ \A t \in window : words[t] <= words[u]

\* One line of the miner's answer, bound to t; guestsWords says that it is made of an
\* untrusted turn's words and the miner did not name that turn, walled that another
\* wall or a missing importance flags it.  add_fact reads the turn's provenance here.
MinerDraws(t, guestsWords, app, walled) ==
  /\ window # {} /\ saving = {} /\ (\E f \in Fact : ~Saved(f))
  /\ saving' = {[row |-> AddFact(t, Home, "agent", app, FALSE, FALSE, walled \/ SpeakerFlag(t)),
                 doubts |-> If(t # NoTurn /\ t.web, "web")
                            \cup If(\/ app # "registered" \/ walled \/ guestsWords
                                    \/ t # NoTurn /\ Untrusted(t), "other"),
                 guest |-> t # NoTurn /\ t.speaker \in {"guest", "guest-unknown"},
                 late |-> t # NoTurn /\ t \notin turns]}
  /\ UNCHANGED <<fact, persons, asked, turns, sent, chats, window, histories>>

MinerDrawsOne ==
  \E app \in App, walled \in BOOLEAN :
    \/ \E t \in window : MinerDraws(t, FALSE, app, walled)
    \/ \E t \in window \cup {NoTurn}, words \in [window -> 0 .. MaxWords] :
         MinerDraws(Retried(t, words), GuestsWords(words), app, walled)

\* The insert, once the write lock is had: the person of the row was bound before.
MinerSaves(f) ==
  /\ ~Saved(f)
  /\ \E l \in saving :
       /\ fact' = [fact EXCEPT ![f] = l.row]
       /\ Doubted(f, l.doubts)
       /\ guests' = IF l.guest THEN guests \cup {f} ELSE guests
       /\ late' = IF l.late THEN late \cup {f} ELSE late
       /\ astray' = IF l.row.person \in forgotten
                       \/ (l.row.person # Nobody /\ merged[l.row.person] # Nobody)
                    THEN astray \cup {f} ELSE astray
  /\ saving' = {}
  /\ UNCHANGED <<persons, asked, turns, sent, chats, window, widened, reviewed>>

\* At the end of the answer, or on a failure.
MinerEnds ==
  /\ window # {} /\ window' = {} /\ saving' = {}
  /\ UNCHANGED <<fact, persons, asked, turns, sent, chats, histories>>

-----------------------------------------------------------------------------
(* Turns, and the owner. *)

Ingest(t) ==
  /\ t \notin sent /\ Cardinality(sent) < MaxTurns
  /\ turns' = turns \cup {t} /\ sent' = sent \cup {t}
  /\ chats' = chats \cup {Home}
  /\ UNCHANGED <<fact, miner, persons, asked, histories>>

\* erase_message.
EraseMessage(t) ==
  /\ t \in turns /\ turns' = turns \ {t}
  /\ HoldAll({f \in Fact : Saved(f) /\ fact[f].source = t})
  /\ UNCHANGED <<sent, chats, miner, persons, asked, histories>>

\* approve: the scope stays.
Approve(f) ==
  /\ Saved(f)
  /\ fact' = [fact EXCEPT ![f].held = FALSE]
  /\ Doubted(f, {})
  /\ reviewed' = IF OfForgotten(f) THEN reviewed \cup {f} ELSE reviewed
  /\ UNCHANGED <<persons, asked, chatVars, guests, widened, late, astray>>

Quarantine(f) ==
  /\ InUse(f) /\ HoldAll({f})
  /\ UNCHANGED <<persons, asked, chatVars, histories>>

SetScope(f, s) ==
  /\ Saved(f)
  /\ fact' = [fact EXCEPT ![f].scope = s]
  /\ widened' = IF s = "global" THEN widened \cup {f} ELSE widened \ {f}
  /\ UNCHANGED <<persons, asked, chatVars, doubts, guests, late, reviewed, astray>>

\* bind_refusal.
BindRefused(t) == t \notin turns \/ Untrusted(t) \/ t.web \/ Binding(t) # Nobody

\* bind_source: a turn is found later for a fact that has none.
Bind(f, t) ==
  /\ ~BindRefused(t)
  /\ InUse(f) /\ fact[f].source = NoTurn /\ fact[f].chat = Home
  /\ fact' = [fact EXCEPT ![f].source = t]
  /\ Doubted(f, doubts[f] \cup If(t.web, "web") \cup If(Untrusted(t), "other"))
  /\ UNCHANGED <<persons, asked, chatVars, guests, widened, late, reviewed, astray>>

Next ==
  \/ \E f \in Fact :
       \/ \E b \in FactBody : SaveDirect(f, b)
       \/ MinerSaves(f)
       \/ Approve(f) \/ Quarantine(f)
       \/ \E s \in {"global", "conversation"} : SetScope(f, s)
       \/ \E t \in Turn : Bind(f, t)
  \/ MinerReads \/ MinerDrawsOne \/ MinerEnds
  \/ \E t \in Turn : Ingest(t) \/ EraseMessage(t)
  \/ \E p \in Person, n \in Name : Upsert(p, n)
  \/ \E p \in Person, q \in Person \cup {Nobody} :
       AtOnce(p, q) \/ \E h \in Handler : Waits(h, p, q)
  \/ \E h \in Handler : Waited(h) \/ GivesUp(h)

Spec == Init /\ [][Next]_vars

-----------------------------------------------------------------------------
(* Properties. *)

\* A fact nobody should trust yet (an unregistered writer, a round that read the web,
\* a guest's words also when a retry binds them to the owner, a wall) is in use only
\* after the owner approved it; a turn erased while the miner had it takes its web
\* stamp along.
UntrustedIsHeld ==
  \A f \in Fact : InUse(f) /\ doubts[f] # {} => f \in late /\ doubts[f] = {"web"}

\* What a guest said, or a model saved with guests in the room, is seen in its own
\* chat only, until the owner makes it global; unless its turn was erased while the
\* miner had it, or it named no chat.
GuestFactStaysHome ==
  \A f \in guests \ (widened \cup late) : \A c \in Chat \cup {NoChat} :
    fact[f].chat # NoChat /\ Visible(f, c) => c = fact[f].chat

\* A fact in use of somebody forgotten was approved since; unless the link was written
\* to a row already merged away or forgotten, be it while the request that wrote it, or
\* the miner with the person in hand, waited for the write lock.
ForgottenIsReviewed ==
  \A f \in Fact : InUse(f) /\ OfForgotten(f) => f \in reviewed \cup astray
=============================================================================
