------------------------------ MODULE Vectors ------------------------------
(***************************************************************************)
(* The vectors of the facts (memory_service/embeddings.py, the write-time  *)
(* embeds of ledger.py, the fill that recall.py and summary.py begin       *)
(* with).                                                                  *)
(*                                                                         *)
(* A vector is made of a fact's text by the configured model and belongs   *)
(* to that model's space.  Two processes make them: the service, which     *)
(* compares the stamped space with its configuration when it starts, and   *)
(* the MCP adapter, which does not and lives as long as its client.  Every *)
(* embed is a call to a provider with no lock held: the fact may be edited *)
(* before the answer is written.                                           *)
(*                                                                         *)
(* A text is its version, 0 before the fact is saved.  All spaces have one *)
(* length here; of vectors of another length see the README.               *)
(***************************************************************************)
EXTENDS Integers, FiniteSets

CONSTANTS
  Fact,
  Space,                    \* embedding models
  NoSpace, NoVector,
  Chunk,                    \* facts embedded by one call of a fill
  MaxText,                  \* versions of a fact
  MaxFaults                 \* failed calls, stops, changes of the configuration, and
                            \* saves in a process with no provider

ASSUME VectorsAssumption ==
  /\ Space # {} /\ NoSpace \notin Space /\ NoVector \notin [text : Nat, space : Space]
  /\ Chunk \in Nat \ {0} /\ MaxText \in Nat /\ MaxFaults \in Nat

Process == {"service", "mcp"}
Vector == [text : Nat, space : Space]
Embed == [by : Process, fact : Fact, text : Nat]

VARIABLES
  text,        \* facts.content
  vector,      \* facts.embedding
  stamp,       \* the embedding_space row of settings
  config,      \* embedding_model in the configuration file
  model,       \* the model a running process read when it started
  embeds,      \* write-time embeds waiting for their answer
  fill,        \* ensure_fact_embeddings of a process: no, read, ask
  batch,       \* batch[p]: the rows of the call, a function from facts to texts
  faults,
  torn,        \* history: facts edited while an embed of them was in flight
  foreign,     \* history: facts whose vector an adapter with another model made
  left         \* history: facts whose embed never began, failed or died

db == <<text, vector, stamp>>
work == <<embeds, fill, batch>>
histories == <<torn, foreign, left>>
vars == <<db, config, model, work, faults, histories>>

NoBatch == [f \in {} |-> 0]

TypeOK ==
  /\ text \in [Fact -> Nat] /\ vector \in [Fact -> Vector \cup {NoVector}]
  /\ stamp \in Space \cup {NoSpace} /\ config \in Space
  /\ model \in [Process -> Space \cup {NoSpace}]
  /\ model["service"] # NoSpace => stamp = model["service"]
  /\ embeds \in SUBSET Embed
  /\ fill \in [Process -> {"no", "read", "ask"}]
  /\ DOMAIN batch = Process
  /\ \A p \in Process : batch[p] \in [DOMAIN batch[p] -> Nat] /\ DOMAIN batch[p] \subseteq Fact
  /\ \A p \in Process : model[p] = NoSpace => fill[p] = "no"
  /\ faults \in Nat
  /\ torn \subseteq Fact /\ foreign \subseteq Fact /\ left \subseteq Fact

Init ==
  /\ text = [f \in Fact |-> 0] /\ vector = [f \in Fact |-> NoVector]
  /\ stamp = NoSpace /\ config = CHOOSE s \in Space : TRUE
  /\ model = [p \in Process |-> NoSpace]
  /\ embeds = {} /\ fill = [p \in Process |-> "no"]
  /\ batch = [p \in Process |-> NoBatch]
  /\ faults = 0
  /\ torn = {} /\ foreign = {} /\ left = {}

Up(p) == model[p] # NoSpace
Missing == {f \in Fact : text[f] > 0 /\ vector[f] = NoVector}
Rows(F) == [f \in F |-> text[f]]
Fault == faults < MaxFaults /\ faults' = faults + 1

-----------------------------------------------------------------------------
(* Facts, and the embed each save starts on a thread of its own. *)

\* _spawn_embed.  A process with no provider starts no thread.
Spawn(p, f, t) ==
  \/ /\ embeds' = embeds \cup {[by |-> p, fact |-> f, text |-> t]}
     /\ left' = left \ {f} /\ UNCHANGED faults
  \/ left' = left \cup {f} /\ Fault /\ UNCHANGED embeds

\* add_fact.
Save(p, f) ==
  /\ Up(p) /\ text[f] = 0
  /\ text' = [text EXCEPT ![f] = 1]
  /\ Spawn(p, f, 1)
  /\ UNCHANGED <<vector, stamp, config, model, fill, batch, torn, foreign>>

InFlight(f) ==
  \/ \E e \in embeds : e.fact = f
  \/ \E p \in Process : f \in DOMAIN batch[p]

\* Mutant of Edit: the vector stays.
EditKeepsVector(f) ==
  /\ Up("service") /\ text[f] \in 1 .. MaxText - 1
  /\ text' = [text EXCEPT ![f] = @ + 1]
  /\ Spawn("service", f, text[f] + 1)
  /\ torn' = IF InFlight(f) THEN torn \cup {f} ELSE torn \ {f}
  /\ foreign' = foreign \ {f}
  /\ UNCHANGED <<vector, stamp, config, model, fill, batch>>

\* update_fact.
Edit(f) ==
  /\ Up("service") /\ text[f] \in 1 .. MaxText - 1
  /\ text' = [text EXCEPT ![f] = @ + 1]
  /\ vector' = [vector EXCEPT ![f] = NoVector]
  /\ Spawn("service", f, text[f] + 1)
  /\ torn' = IF InFlight(f) THEN torn \cup {f} ELSE torn \ {f}
  /\ foreign' = foreign \ {f}
  /\ UNCHANGED <<stamp, config, model, fill, batch>>

\* The facts a process has just given a vector.
Made(p, F) ==
  foreign' = IF p = "mcp" /\ model[p] # stamp THEN foreign \cup F ELSE foreign \ F

\* _embed_now: written only where there is no vector yet.
EmbedEnds(e) ==
  /\ e \in embeds /\ embeds' = embeds \ {e}
  /\ IF vector[e.fact] = NoVector
     THEN /\ vector' = [vector EXCEPT ![e.fact] = [text |-> e.text, space |-> model[e.by]]]
          /\ Made(e.by, {e.fact})
     ELSE UNCHANGED <<vector, foreign>>
  /\ UNCHANGED <<text, stamp, config, model, fill, batch, faults, torn, left>>

EmbedFails(e) ==
  /\ e \in embeds /\ embeds' = embeds \ {e}
  /\ Fault
  /\ left' = left \cup {e.fact}
  /\ UNCHANGED <<db, config, model, fill, batch, torn, foreign>>

-----------------------------------------------------------------------------
(* ensure_fact_embeddings. *)

FillEnds(p) ==
  /\ fill' = [fill EXCEPT ![p] = "no"]
  /\ batch' = [batch EXCEPT ![p] = NoBatch]

Asks(p) ==
  /\ \E F \in SUBSET Missing :
       /\ F # {}
       /\ Cardinality(F) = Chunk \/ (Cardinality(F) < Chunk /\ F = Missing)
       /\ batch' = [batch EXCEPT ![p] = Rows(F)]
  /\ fill' = [fill EXCEPT ![p] = "ask"]

\* A recall with a query, and in the service a build of the profile.
FillBegins(p) ==
  /\ Up(p) /\ fill[p] = "no" /\ Asks(p)
  /\ UNCHANGED <<db, config, model, embeds, faults, histories>>

FillReads(p) ==
  /\ fill[p] = "read"
  /\ IF Missing = {} THEN FillEnds(p) ELSE Asks(p)
  /\ UNCHANGED <<db, config, model, embeds, faults, histories>>

\* The rows are written without looking at them again, in one commit.
Answered(p) ==
  /\ fill[p] = "ask"
  /\ vector' = [f \in Fact |-> IF f \in DOMAIN batch[p]
                               THEN [text |-> batch[p][f], space |-> model[p]]
                               ELSE vector[f]]
  /\ Made(p, DOMAIN batch[p])

\* Mutant of FillWrites: one call and no more.
FillWritesOnce(p) ==
  /\ Answered(p) /\ FillEnds(p)
  /\ UNCHANGED <<text, stamp, config, model, embeds, faults, torn, left>>

FillWrites(p) ==
  /\ Answered(p)
  /\ fill' = [fill EXCEPT ![p] = IF Cardinality(DOMAIN batch[p]) < Chunk THEN "no" ELSE "read"]
  /\ batch' = [batch EXCEPT ![p] = NoBatch]
  /\ UNCHANGED <<text, stamp, config, model, embeds, faults, torn, left>>

\* The call fails, or there is no provider to call.
FillFails(p) ==
  /\ fill[p] = "ask" /\ FillEnds(p)
  /\ Fault
  /\ left' = left \cup Missing
  /\ UNCHANGED <<db, config, model, embeds, torn, foreign>>

\* A query is embedded by the process's model, or taken from its cache under that model.
QuerySpace(p) == model[p]

\* What a recall compares with its query, and then with each other to drop paraphrases.
Compared == {f \in Fact : text[f] > 0 /\ vector[f] # NoVector}

-----------------------------------------------------------------------------
(* The model, and the processes. *)

ConfigChanges(s) ==
  /\ s # config /\ config' = s
  /\ Fault
  /\ UNCHANGED <<db, model, work, histories>>

Starts(p) == ~Up(p) /\ model' = [model EXCEPT ![p] = config]

\* load_settings, and nothing else.
AdapterStarts ==
  /\ Starts("mcp")
  /\ UNCHANGED <<db, config, work, faults, histories>>

\* The first start with a stamp: the vectors there are count as the model's own.
Adopts ==
  /\ Starts("service") /\ stamp = NoSpace
  /\ stamp' = config
  /\ foreign' = {f \in Fact : vector[f] # NoVector /\ vector[f].space # config}
  /\ UNCHANGED <<text, vector, config, work, faults, torn, left>>

Resumes ==
  /\ Starts("service") /\ stamp = config
  /\ UNCHANGED <<db, config, work, faults, histories>>

\* The model changed: no vector is kept, and a thread refills them.
Wipes ==
  /\ Starts("service") /\ stamp \notin {NoSpace, config}
  /\ stamp' = config
  /\ vector' = [f \in Fact |-> NoVector]
  /\ fill' = [fill EXCEPT !["service"] = "read"]
  /\ torn' = {f \in torn : InFlight(f)}
  /\ foreign' = {} /\ left' = {}
  /\ UNCHANGED <<text, config, embeds, batch, faults>>

\* A process ends; its threads end with it.
Stops(p) ==
  /\ Up(p) /\ model' = [model EXCEPT ![p] = NoSpace]
  /\ Fault
  /\ embeds' = {e \in embeds : e.by # p}
  /\ FillEnds(p)
  /\ left' = left \cup {e.fact : e \in embeds \ embeds'}
                  \cup (IF fill[p] = "no" THEN {} ELSE Missing)
  /\ UNCHANGED <<db, config, torn, foreign>>

Threads ==
  \/ \E e \in embeds : EmbedEnds(e)
  \/ \E p \in Process : FillReads(p) \/ FillWrites(p)

Next ==
  \/ \E f \in Fact : Edit(f) \/ \E p \in Process : Save(p, f)
  \/ Threads
  \/ \E e \in embeds : EmbedFails(e)
  \/ \E p \in Process : FillBegins(p) \/ FillFails(p) \/ Stops(p)
  \/ \E s \in Space : ConfigChanges(s)
  \/ AdapterStarts \/ Adopts \/ Resumes \/ Wipes

Spec == Init /\ [][Next]_vars

\* A thread runs, and a call is answered unless it fails.
Fairness == WF_vars(Threads)
FairSpec == Spec /\ Fairness

-----------------------------------------------------------------------------
(* Properties. *)

\* What the service's recall compares its query with is the vector of the fact's
\* present text in the query's own space.  Two cases the code leaves open: the fact
\* was edited while an embed of it was in flight, and an adapter made the vector
\* with another model than the stamped one, having started before the service took
\* the present model up, or after the configuration changed and before the service
\* restarted.
ComparesLikeWithLike ==
  Up("service") => \A f \in Compared :
    /\ f \notin torn => vector[f].text = text[f]
    /\ f \notin foreign => vector[f].space = QuerySpace("service")

\* A fact gets its vector from the save's own thread, the edit's or the refill's,
\* without a recall, unless that embed failed, its process ended or had no provider.
EmbeddedUnlessLeft ==
  \A f \in Fact : (text[f] > 0 /\ vector[f] = NoVector) ~> (vector[f] # NoVector \/ f \in left)
=============================================================================
