# membro in TLA+

Models of the memory service in `src/memory_service`, checked with TLC on small
instances and, for the modules named below, proved with TLAPS for every value of
their constants. The source is the reference: each definition is translated from
the lines `PROJECT.json` maps it to.

## 1. The system

membro is one Python process: an HTTP service (`api.py`) over one SQLite file, beside
MCP adapters, processes of their own on the same file. It has handlers in a thread pool,
jobs in threads of their own (`jobs.py`), timers and hourly loops. A *conversation* is a
list of messages that apps send in; a *distill* mines it for *facts* with a language
model; facts that a wall doubts are *held* for the owner's review; the *profile* is a
text built by a model from the facts in use. Commits are atomic and every thread sees
all earlier ones; a model call takes seconds to minutes and runs with no write open. So
the hard behaviour is everywhere the same: something is read, minutes pass while other
threads commit, and something is written.

| Component | State | Operations | Hard part | Modelled by |
|---|---|---|---|---|
| Profile (`summary.py`) | `summary`, `summary_sources`, `summary_versions`, `_build_lock` | regenerate, drop_held, restore | builds in flight while facts are pulled | `Profile` |
| Refresh job (`summary.py`) | timer, `_running`, `_again`, `_closed` | now, soon, close, the job | a request between a pass's look and its end | `ProfileRefresh`, `Coalescer` |
| Distill (`mining.py`) | `mined_upto`, per-conversation lock, locals of a run | chunks, cut-off replies, add, supersede, advance | arrivals, erasures, second requests, crashes between commits | `Distill` |
| Ledger (`ledger.py`) | `facts` | add, hold, approve, dismiss, supersede, erase | read-then-write, three writers of one row | `Review`, `Distill`, `Profile` |
| Judge (`judge.py`) | `judge_attempts` | hourly pass, one look | verdicts on an old copy; backlog | `Review`, `JudgeRounds` |
| Erasers, journal, restore (`erasers.py`, `restore.py`, `db.py`) | `erasures`, snapshot files | erase, restore, replay | crash between copy and replay; ids across copies | `Restore`, `Record`, `Persons` |
| Episodic store (`episodic.py`) | conversations, messages, attachment rows and files, search indexes | ingest, watermark, search | file and row are two steps; indexes that lag | `Record`; arrival in `Distill` |
| Captions (`captions.py`) | captions, their index entries | caption an image | the row goes during the vision call | `Record` |
| Persons (`persons.py`) | persons, aliases, clips and their files, manifests | upload, move, merge, forget, replay | shared files, rows and files that disagree | `Persons`; names and links in `Saves` |
| Walls and provenance (`walls.py`, `ledger.py`, `mining.py`) | scope, hold and person of a fact | the gates of a save, binding, rebinding | source read when the fact is added, not when it was mined | `Saves` |
| Session feed (`claude_code_feed.py`) | coverage per session | sweep | crash between store and mark; files that grow | `Feed` |
| Embeddings (`embeddings.py`) | vectors, space tag | write-time embed, fill, space guard | edit during the call; a second process | `Vectors` |
| Jobs, busy marks, galaxy (`jobs.py`, `busy.py`, `viz.py`) | registry, marks, cached projection | run, poll, compute | thread that cannot start; two pages; stamp | `Galaxy` |
| Sign-in (`sessions.py`, `auth.py`, `passkeys.py`) | session rows, verifier, passkey list | mint, revoke, reset, enrol, remove | read-change-write of one JSON value | sessions in `Restore`; the rest is planned |
| Weighting, consolidation, recall scores | none | pure functions | order of rules | not modelled |

`PROJECT.json` lists every part, with those left out and why.

How they interact. A distill adds facts to the ledger and, at its end, builds the
profile. Handlers commit a change of the ledger first and only then call
`ProfileRefresh.soon` (a hold) or `now` (an erase or a forget); the job checks
the profile against the ledger under the build lock and rebuilds it. The judge
and the owner write the same columns of held facts. An eraser removes a message
and holds the facts bound to it, in one commit. Files (attachments, voice clips)
are outside every commit: written before the row, unlinked after it. A distill first
captions images; a save, an edit and a recall embed facts; the feed ingests and
distills notes of its own. Nothing but the database and the files survives
a crash: locks, timers, jobs and flags are gone, and startup looks once at
whether the profile cites a pulled fact.

## 2. Modules

**`Coalescer`** is what a coalescing background job promises: a request made
before a pass begins is served by it, one made after its beginning gets another,
and no request is lost unless the job cannot run or has been closed.

**`ProfileRefresh`** is the class of that name. Every method body runs under its
lock, so each is one action; what interleaves is who waits for the lock
(`soonCalls`, `nowCalls`, and a timer that has `fired` and can no longer be
cancelled). `Soon`, `TimerFires`, `NowFolds`, `NowStarts`, `NowFailsToStart`,
`Close`, `PassBegins`, `PassCannotOpen`, `PassEnds`, `GoesRoundAgain` and `Stops`
are the branches of the code. `Coalesces` states that it implements `Coalescer`
(`pass` is "some job is inside drop_held", `lost` is `dropped`).

**`Profile`** extends `ProfileRefresh`: the pass is now `drop_held` itself, its
check and its rebuild under the build lock, beside plain builds (a distill's or
the owner's), facts that are added, held, erased and approved, restored versions,
shutdown, crash and restart. A build is `pick` (lock taken) then `draft` (facts
chosen, model running) then a save. What a build selects of the facts in use is
any set.

**`Review`** has the columns of a held fact (`quarantined_at`,
`review_dismissed_at`, `quarantine_reason`, `confidence`, `invalidated_at`) and
everybody who writes them. Approval is two steps (`ApproveReads`, `ApproveWrites`)
as in the code, a judge's pass copies rows (`PassStarts`), looks (`Look`) and
writes by id (`Verdict`); an erased row ends the pass (`VerdictOnErased`).
Reasons are the classes the code tells apart.

**`JudgeRounds`** abstracts from what the judge finds and keeps which rows it gets
round to: batches of the lowest due ids, attempts recorded per row, a pass ended
by an erased row.

**`Distill`** is one conversation: messages, the watermark, the facts, and
`distill()` in several threads. A run takes the lock (`Start`, or `Skip`), looks
for a chunk (`SkipModelTurns`, `CallMiner`, `NothingPending`), and the model
answers whole (`MinerAnswers`) or not (`MineHalf`, `MineRoomy`, `LeaveUnmined`);
then lines are added one commit at a time (`AddLine`), each with its supersessions
(`Supersede`), and the watermark moves (`ChunkDone`). Any step may fail
(`Fails`), the process may die anywhere (`Crash`), and messages arrive and are
erased and the owner works on the facts throughout. The miner's answer and the
walls' verdict are left open, which covers every answer and verdict. `view` is
the attachments the run read at its beginning.

**`Restore`** is the live database and the list of its snapshots, each a whole
database with its own erasure journal, id sequences and sign-ins. The service's
steps (`Ingest`, `AddFact`, `Approve`, `Erase`, `SignIn`, `Revoke`, `Backup`) are
one commit each. A restore copies the live file aside and a snapshot over it
(`RestoreBegins`), ends every sign-in (`EndsSignIns`, after the snapshot that
`db.init` takes), replays one tombstone per commit (`Replay`) and ends, or dies
(`RestoreDies`). `Named` is the lookup by kind and id: a row keeps its id in every
copy, and rows of two lineages may share one. The tombstones a restore had still
to replay are its own; when it dies, only the copy it kept aside knows them. So
the properties speak of a service whose restores all ended, or were undone
(`Sound`): `interrupted`, `undo` and `curing` record that. A copy of the file is
one step: the service is stopped, and a half-written file is not modelled.

**`Persons`** has the people, their clip rows and the audio files by hash. An upload
is `AddBegins` (file) and `AddEnds` (row); a delete is one commit and then `Unlink`;
a forget unlinks first (`ForgetBegins`, with the write lock held) and commits after
(`ForgetEnds`). `StoreManifest` and `DeleteUnused` are the app's list of what it keeps
and the owner's press; a manifest judges nothing once its person changed, so
`db.manifests` holds only those that still judge. `ReplayClip` and `ReplayForget` put
the journal onto an older copy. A snapshot is taken while no manifest judges, once for
each restore; a restore that dies is left to `Restore`.

**`Saves`** is what a fact takes from its origin: `AddFact` is `add_fact`'s gates, called
by a client (`SaveDirect`) and by the miner (`MinerAddsOne`) for turns it read earlier
(`MinerReads`). A turn is a record of its speaker's class and name, its web stamp and its
identity; the words a fact shares with a turn are a number. `RetryHolds` is the check of
a guessed binding, `Bind` the owner's script rebinding a fact, `Upsert`, `Merge` and
`Forget` what the persons' routes do to facts. Approval is one step here, two in
`Review`; the duplicate guard is that a fact is saved once. The links made by the
schema's migration are not modelled.

**`Feed`** is the sweep over session files: a file is the times of its turns and of its
last write. `SweepBegins` notes the quiet files with their times, the loop takes the
`Oldest`, and `Passes`, `ReadFails`, `Asks`, `CallFails`, `Declines`, `Stores` and
`Marks` are its branches; `Stores` and `Marks` are two commits.
The owner erases notes throughout (`EraseNote`).

**`Record`** is one conversation's messages and files, the captions, and both search
indexes as what they hold: `said` and `entries` are the words a search can match,
`sized` the `_docsize` rows the repair counts. The ingest holds the write lock between
`IngestBegins` (file) and `IngestEnds` (rows), the eraser reads (`EraseLooks`), writes
(`EraseWrites`) and unlinks (`Unlink`). `Start` and `Rebuild` are the two commits of
the repair; `Search` is what a search for a word of every row returns. A restore is
followed by a client that winds back (`WindBack`) and sends again.

**`Vectors`** is the texts and vectors of facts, where a text is its version and a
vector is the text and the space it was made of. The service and an MCP adapter each
read the model when they start; only the service compares it with the stamp (`Adopts`,
`Resumes`, `Wipes`). `EmbedEnds` is the write-time embed, `FillBegins` to
`FillWrites` the chunked fill.

**`Galaxy`** is the cached projection with its stamp, and the registry of jobs, the busy
marks and the pages that ask for it. `Books` and `StartsJob` are `jobs.run` before and
after its thread starts, `CannotStart` when it does not; `Reads`, `Stamps` and `Saves`
are the computation, `Records` and `Unmarks` its end.

An `MC...` module gives its module to TLC with the symmetry its run uses
(`Profile`, whose runs check liveness and so use none, is checked as it is).

`...Proofs` modules hold theorems. Four are of two models each, which is why the second
of each pair names its state apart (`FeedInit`, `RoundsSpec`, `GalaxyTypeOK`):
`ProfileProofs` (`ProfileRefresh`, `Profile`), `JudgeProofs` (`Review`, `JudgeRounds`),
`MiningProofs` (`Distill`, `Feed`) and `EmbeddingsProofs` (`Vectors`, `Galaxy`).
`PersonsProofs`, `RecordProofs`, `RestoreProofs` and `SavesProofs` are of one each.

## 3. What the runs show

| Run | Instance | What it shows |
|---|---|---|
| `refresh` | 2 job threads, 4 requests | `OneJob`, `RequestRemembered`; `Coalesces` (with fairness) and `EveryRequestServed` |
| `profile` | 1 fact, 2 jobs, 1 plain builder, 3 requests, 1 crash, with fairness | `OneBuild`, `PulledFactOnItsWayOut`, `StaleBuildNotLast`; `PulledFactLeaves`, through the crash |
| `review` | 2 facts, births held by grounding, by persona, or not held | `DismissedIsHeld`, `DecisionStands`, `DoubtHasACause` |
| `judge_rounds` | 4 rows, 2 a pass, 2 passes a day | `BacklogDrains`, `OnceADay` |
| `distill` | 2 messages, 2 facts, 1 claim, 2 days, 2 threads, chunks of 2 | `NothingPassedOver`, `NoTwins`, `SkippedIsCovered`, `WatermarkNeverBack`, `SoundSupersession`, `EveryTurnNarrows` |
| `restore` | 2 facts, 1 message, 1 sign-in, 3 snapshots kept, 1 erasure, 2 restores | `ErasedStaysErased`, `SourceErasedIsHeld`, `EndedStaysEnded`, `OnlyErasedGoes` |
| `persons` | 2 people, 2 recordings, 1 app, 2 clips, 2 erasures, 1 restore | `ForgottenHasNothing`, `UnusedWasLeftOut`, `AudioIsThere` |
| `feed` | 3 sessions (one not the owner's), 1 call a sweep, 3 writes, 1 fault, with fairness | `CoveredWasTold`, `ErasedStaysErased`, `EveryTurnIsCovered` |
| `record` | 3 messages, two with the same image and one with a text file, 2 erasures, 1 restore, 2 faults | `IndexIsTheRecord`, `BytesAreThere`, `ErasedStaysOut` |
| `saves` | 1 fact, 2 people, 2 names, 3 turns (the owner, a model after the web, a known guest) | `UntrustedIsHeld`, `GuestFactStaysHome`, `ForgottenIsReviewed` |
| `vectors` | 2 facts of 2 versions, 2 models, chunks of 1, 2 faults, with fairness | `ComparesLikeWithLike`, `EmbeddedUnlessLeft` |
| `galaxy` | 3 facts with 2 drawn, 2 pages, 2 job slots, 3 changes, 1 fault, with fairness | `SceneIsCurrent`, `BusyIsWork`, `ShownInTheEnd` |

The type invariants are stated in every module (`TypeOK`, `RefreshTypeOK`,
`RoundsTypeOK`, `FeedTypeOK`, `GalaxyTypeOK`; `Coalescer` needs none). Each is a theorem,
so no run keeps checking it.

Why the bounds are enough to be of use:

- *Requests*: with three there can be one in a pass, one folded in and one in a
  timer at a time; the fourth re-arms a timer after a job has stopped. Two job
  identities let a wrong second job exist beside the first; more are never alive.
- *Facts of the profile*: facts meet only in what a build chooses, and each
  property follows one fact. The safety properties are proved for any number; the
  run keeps to one so that liveness can be checked beside them.
- *Review*: rows meet only in a pass and in bulk operations, for which two rows
  are needed; the columns of each are all there.
- *Judge rounds*: rows fill the day's passes exactly (`Rows = Batch * Day`), the
  tight case. Above that (1,200 held rows at 50 a pass and 24 passes a day) the
  lowest ids come due before the highest are reached, and those starve.
- *Distill*: two messages and chunks of two give halving, a single message left
  unmined, and an arrival behind a chunk. One claim makes every line a possible
  twin; two days, 0 and 2, are more than a day apart; two threads contend for the
  lock. The proofs do not depend on these numbers.
- *Restore*: two facts are what it takes for an id to be given twice, two restores
  for going back and returning. Three kept snapshots leave one from before the
  erasure and one with the erased row to choose from after a restore has added two
  of its own. The message can be the source of a fact. The proofs take any numbers.

- *Persons*: two people and two recordings let a clip be moved to someone who has its
  bytes, and a file be shared by two rows; two erasures give a delete and a forget that
  a restore replays together. With one app the manifests of several are not compared:
  each judges its own uploads only.
- *Feed*: one call a sweep with two sessions of the owner's due makes the limit bite;
  three writes let a session grow during its summary and after it. The one fault is a
  failed call, a missing key, an unreadable file or a crash.
- *Record*: two rows with one image make the file shared; the third message is there to
  be erased after an answer and before a restore; two faults are a damaged index and a
  crash in its repair.
- *Saves*: facts do not meet, so one will do; two people make a merge, two merges a
  circle; the three turns are one of each trust. Words from 0 to 2 give the retry a
  rival with fewer, as many and more.
- *Vectors*: chunks of one make every fill loop; two models and two faults let the
  configuration change, the service restart and the adapter not.
- *Galaxy*: three facts and two drawn make the sample smaller than the ledger; two
  slots hold a job under way beside the one that is booked, so two jobs save in either
  order.

Bounds are constants: `MaxRequests`, `MaxCrashes`, `MaxMsg`, `MaxFact`, `Rows`,
`Keep`, `MaxErasures`, `MaxRestores`, `MaxClips`, `MaxWrites`, `MaxRows`, `MaxWords`,
`MaxText`, `MaxChanges`, `MaxFaults`, `MaxMishaps`, and `Job` in `Galaxy`.
A run whose owner is done may stop, so these cfgs set `CHECK_DEADLOCK FALSE`;
`judge_rounds` checks deadlock.

### Fairness

Assumed only for threads the process owns, never for people. A thread that waits
for a short lock gets it; the timer fires once nobody re-arms it (`MaxRequests`
bounds that; the code itself lets a steady stream of holds postpone a rebuild
for as long as it lasts); a job goes on; a build ends because every model call has
a timeout; the supervisor restarts a process that stopped. The check's wait for
the build lock needs strong fairness, since other builds may take it in between.
The judge's loop catches what a pass raises and goes on. The feed's thread goes on
after a failure and its calls end; a session is quiet at last, since its writes are
bounded. A thread that embeds runs until it is answered, fails or dies, and nothing is
assumed of recalls. A page that is told "computing" asks again, which is the page's
script; a job's thread runs once started. Distill is checked for safety;
`EveryTurnNarrows` is the step-wise reason its loop ends.

### Where code and documentation differ

The properties hold of the code as it is, so each names the cases where the code does
less than its documentation or comments say. A case is a history variable or a guard of
the property, and these are all of them.

| What is said | What happens | Named by |
|---|---|---|
| `docs/API.md:889`: the profile is rebuilt when it was built from a fact since held or erased | `summary.restore` puts back a version that cites such a fact; nothing is asked to rebuild it until the next hold, erase or restart | `reverted` in `Profile` |
| `ledger.py:502`: a dismissed fact stays quarantined | the judge clears by id alone, so its verdict on an older copy puts the fact in use | `raced` in `Review` |
| `mining.py:372`: the in-flight run covers a skipped request's messages | not when it is already rebuilding the profile with the lock in hand | `owed` in `Distill` |
| `mining.py:303`: attachment text mines alongside its message | attachments are read once per run; a message that arrives later is mined without | `Distill` keeps no files |
| `docs/MEMORY_INTEGRITY.md:136`: live facts bound to an erased message move to review | a fact added after the eraser ran, from a chunk read before it, stays in use, without the web hold and global | `late` in `Saves` |
| `docs/MEMORY_INTEGRITY.md:129`: a fact is deleted only by the eraser or by the replay of that same erasure | a tombstone names its row by id; after a return to an older snapshot the id is given again, and the replay erases the other row of that id | `OnlyErasedGoes` (`home`) |
| `ledger.py:238`: an unrecognised speaker's turn scopes a fact to its chat | an unrecognised label holds the fact; only a guest's scopes it (`ledger.py:174`) | `guests` in `Saves` |
| `persons.py:60`: a forgotten person binds nothing | naming a merged-away or forgotten row links earlier facts to it, and a merge into a row that was merged away takes facts off the line | `astray` in `Saves` |
| `erasers.py:32`: a captioned image's words go from the index with it | a caption committed between the eraser's read and its transaction stays | `torn` in `Record` |
| `persons.py:373`: a forget deletes the person's audio | an upload that passed its check before the forget's commit adds its clip after it | `late` in `Persons` |
| `docs/TESTING.md:68`: bytes another clip still uses are kept | a delete unlinks after its commit, so an upload of the same bytes in between loses its file; a forget unlinks before its commit, so one that dies leaves rows without audio | `lost` in `Persons` |
| `persons.py:503`: moving a clip keeps the bytes | a clip moved to the person who has it already is deleted without a tombstone | `MoveClip` in `Persons` |
| `api.py:444`: recall never mixes spaces | an adapter that started before the model changed writes vectors of the old one; a text edited while its embed is in flight gets the older vector | `foreign`, `torn` in `Vectors` |
| `recall.py:66`: a vector of another length is treated as missing | the paraphrase step unpacks it again and compares it with those kept, and the comparison of two lengths raises | not modelled: one length |
| `docs/API.md:1190`: the scene is always current | the stamp is taken after the points were computed, and is a count and a highest id | `odd` in `Galaxy` |
| `claude_code_feed.py:18`: an erased summary stays erased, and a resumed session is told of anew from its new part only | after a crash between a note and its coverage the turns are told of again, under another id if the session grew | `torn` in `Feed` |

## 4. What is proved

The theorems hold for all values of the constants under the named assumptions
(`RefreshAssumption`, `ProfileAssumption`, `ReviewAssumption`,
`JudgeRoundsAssumption`, `DistillAssumption`, `RestoreAssumption`, `FeedAssumption`,
`SavesAssumption`, `NoFactAssumption`, `PersonsAssumption`, `RecordAssumption`,
`VectorsAssumption`, `GalaxyAssumption`), which say only that bounds are numbers
(positive, for a batch, a chunk, a day, a sweep's calls, a sample and the snapshots kept),
sets of identities do not overlap, a "nobody" or "nothing" value is not an identity or a
row, `Births` are reasons a fact can be saved under, turns are rows of a turn's form,
every message sent carries some file and images are files, some model can be configured,
and the ids that facts may be given are finitely many positive numbers.

Every safety property of every run is a theorem. None but the simplest is inductive as
it stands; what each needs beside the types is said below.

`ProfileProofs` of `ProfileRefresh`: `RefreshTypes`, `OneJobAtATime`,
`NoRequestForgotten`, and `CoalescingIsSafe`, that every step of the class is a step of
`Coalescer` or a stutter. `OneJob` is inductive with the types. So is
`RequestRemembered`: a request is handed from the waiting call to the timer, from the
timer's thread to a job or to the flag, and from the flag back to the job. The mapping
to `Coalescer` needs `OneJob`, as two jobs would begin a pass inside a pass.

`ProfileProofs` of `Profile`: `Types`, `OneJobThroughCrashes`, `OneBuildAtATime`,
`StaleBuildIsFollowed`, `PulledFactsLeaveCovered`, from one inductive invariant.
`PulledFactOnItsWayOut` speaks of the saved profile only, and a save replaces it
by what some build chose earlier; so the invariant has `StaleBuildNotLast` (a
build whose choice was pulled since is followed by a check), `LockHeld` and
`PickKept` (one build is in flight, under the lock, and a job's build lives inside
its pass), `PassIsFresh` (no failure is on record while a pass runs, so its end
takes back no excuse that is still needed), `UnbornUncited` and `DownIsStill`.

`MiningProofs` of `Distill`: `DistillTypes`, `NothingIsPassedOver`,
`WatermarkOnlyAdvances`, `TurnsNarrow`, `NoClaimTwice`, `SupersedesSoundly`,
`SkippedRequestsCovered`: every property of the run `distill`. `NothingPassedOver` is
not inductive. `DistillInv` adds `LockHeld` (the lock is held by exactly the run under
way), `InOrder` (ids are given in order), `MinedSent` (the watermark stands at a message
that arrived, so no arrival is below it) and `ChunkCovers` (a working run's chunk has
everything kept from the watermark to the chunk's last message, fits the limit, and is
read once the reply is in). The lock keeps the watermark still while a chunk is in work,
and so `ChunkCovers` true of it.

`JudgeProofs` of `Review`: `ReviewTypes`, `DismissedStaysHeld`, `OwnersDecisionStands`,
`DoubtIsExplained`. A decision stands because it takes the fact out of every later
pass, so `ReviewInv` adds `JudgeStaysAway` (a decision not `raced` leaves the judge
without a copy, and `Eligible` is false of what was decided) and `DecidedIsKept`.
A doubt has a cause because a hold that lowers a confidence can be told by its
reason, also after the judge has moved it: `LowExplained` says so of the rows and
`ApprovalExplained` of what an approval has read and not yet written.

`JudgeProofs` of `JudgeRounds`: `RoundsTypes` and `LooksOnceADay`, from `BatchIsDue`:
what a pass has still to look at was due when the pass began, and stays so.

`RestoreProofs`: `Types`, `ErasedStaysGone`, `SourceErasedStaysHeld`,
`EndedSignInsStayEnded`, `OnlyErasedIsGone`. That something erased is absent from the
live file says nothing of the snapshots, so the invariant speaks of all copies: each is
`Honest` (a row its own journal says was erased is not in it) and `Bound` (a fact in use
as it came has its message), and `Remembered` says that the live journal, with what a
restore has still to replay, has every erasure; after a restore that died, the journal
of the copy it kept has the rest. `EraserStep` is the one argument for the owner's
eraser and the replay's: a tombstone and the rows it names go together. `Numbered` (no
tombstone is of the future) keeps a new erasure from being taken for one that some copy
has already. `OnlyErasedIsGone` adds `Traced`: every tombstone, in any copy or still to
be replayed, is that of an erasure, and keeps its kind and id because a row given an id
keeps it.

`MiningProofs` of `Feed`: `FeedTypes`, `CoveredIsTold`, `ToldOnce`. A note is stored one
commit before its coverage, so "no turn is in two notes" says too little. `PartIsNext`
has the part in work begin where its session's coverage ends; `NotesAreCovered` has
every note end below that, unless it is the one just stored or its session is `torn`; so
what is stored next begins after every earlier note. `MarkedIsTold` is what `Marks` owes
`CoveredWasTold`: a note, this one or one of the same id that made the ingest a
duplicate, reaches back over all that the coverage moves across. `Numbered` bounds the
turns by the clock, and the last turn of a part exists because a bounded set of numbers
has one (`LastOf`, by well-foundedness).

`SavesProofs`: `Types`, `DoubtedIsHeld`, `GuestsStayHome`, `ForgottenIsSeen`. Each is
argued for one fact at a time: `AddFact` makes its row `Wary`, at home and linked, and
every other action keeps that of the row it leaves. `UntrustedIsHeld` is inductive with
the types, but needs of a retry that a guest's words flag the guess (`GuestsWordsFlag`).
`GuestScoped` speaks of the row, held or not, where `GuestFactStaysHome` speaks of what
a chat sees. `OnTheLine` is needed because forgetting takes the whole line of a person
merged into, while a fact names one row of it: the invariant keeps facts at the end of
their line, and there the line is that one row (`LineOf`). `Chain`, which follows
merges to the code's depth, is a recursive function over 0 .. 7; `ChainIsDefined`
unfolds it, once, with no induction.

`PersonsProofs`: `PersonsTypes`, `ForgottenKeepNothing`, `OnlyLeftOutIsUnused`,
`AudioStaysThere`. A restore may put back a copy taken long before, so whatever is wanted
of the database must be known of the copy too. `ForgottenIsKept` and `AudioIsKept` say
it: whoever of the copy was forgotten since, and whichever audio of the copy was removed
since, the journal tells in the part of it that the copy has not, and while a restore
replays that part, what is still to do tells it. That a tombstone is not in the copy
rests on its time (`JournalsFit`). A file that is about to be unlinked is the audio of no
row and of no upload under way, unless it is `lost` already. A manifest judges the
clips up to an id, which is sound because ids are given in order and because what moves
to a person ends that person's manifests (`ManifestsKnow`).

`RecordProofs`: `RecordTypes`, `IndexStaysTheRecord`, `BytesStayThere`,
`ErasedMessagesStayOut`. `IndexesFit` has the indexes hold the words of the rows that are
there, whenever they are used, and otherwise nothing at all: damage empties them and a
start rebuilds from empty, so that a start which dies between its two commits leaves
something the next one can tell. A word of a row that is gone can only be that of a row
captioned between its eraser's read and write (`torn`); this holds because the eraser
takes from the index the words it read, which `RequestsFit` keeps equal to the row's.
`CopyIsBehind` is the relation of the copy and the journal, as in `Persons`;
`BytesAreKept` and `ErasedIsTold` follow the bytes and the erased messages through the
replay. A client's next message is new, because only finitely many were sent
(`RefsWithin`).

`EmbeddingsProofs` of `Vectors`: `VectorsTypes`, `LikeIsComparedWithLike`. A vector is
written long after its text was read, so the invariant speaks of what the threads have in
hand: `EmbedsAreFresh` (write-time embeds), `RowsAreFresh` (the rows of a fill) and
`VectorsAreFresh`, each but for facts that are `torn`. `VectorsAreStamped` is stated of
the stamp, not of a running service's model: a service that is down leaves vectors which
the next start either takes for its own, because the stamp is its space, or wipes.

`EmbeddingsProofs` of `Galaxy`: `GalaxyTypes`, `SceneStaysCurrent`, `BusyStaysWork`. A
page is shown a cached projection because its stamp, a count and a highest id, equals the
present one. `StampTells` is why that is enough: if nothing was added at or below the
highest id since, equal counts and equal highest ids mean the same facts; and
`ProjectionsReflect` is that condition, for the cache and for what a job has still to
save, but for the `odd` ones. `BusyIsWork` needs `BookedIsApart`: a job is booked by one
page, and has no thread until that page's request starts it.

Model-checked only: liveness (`Coalesces` with its fairness, `EveryRequestServed`,
`PulledFactLeaves`, `BacklogDrains`, `EveryTurnIsCovered`, `EmbeddedUnlessLeft`,
`ShownInTheEnd`), which is out of the prover's reach. The proofs are of the models:
they lift the bounds of the runs, and what section 6 leaves out they leave out too.

## 5. Plan

In order of importance, each with its model, run and proof:

1. *(done)* `ProfileRefresh`, `Coalescer`, `Profile`: checked and proved.
2. *(done)* `Review`, `JudgeRounds`: checked, all their safety properties proved.
3. *(done)* `Distill`: checked, all its properties proved.
4. *(done)* `Restore`: checked, all its properties proved.
5. *(done)* `Persons`, `Record`: checked, all their safety properties proved.
6. *(done)* `Feed`, `Saves`: checked, all their safety properties proved.
7. *(done)* `Vectors`, `Galaxy`: checked, all their safety properties proved.
8. `Access`: sessions, owner password, passkeys as a list that is read, changed and
   written back. Abstract specification: after a revocation no earlier sign-in.
9. `Backups`: snapshot names, the mirror, the integrity verdict.
10. Pure algorithms as operators against a reference: the chunk and the window of
   `mining.py`, the text checks of `walls.py`, the selection of `weighting.py`.

   Known and still to be given a run: a confidence the owner sets to `low` while the
   fact is held cannot be told from the hold's own, and approval raises it, though
   `ledger.py:484` says it is left as set.

## 6. Not modelled

Texts and prompts, what models answer (left open), floating-point scoring, HTTP and its
sign-in, pages, export, migration, the benchmark and the operator scripts. A fact's
tags, pins and importance do not touch what the properties speak of. A second service
on the same database is excluded by the port; an MCP adapter is not, and is in
`Vectors`. A database error is modelled where the code handles it (a failing run or
build), not in every statement.

Left out of the modules that are there:

- `Galaxy`: the embeddings route looks at the cache twice (`api.py:2063`), and a busy
  mark goes stale after an hour; the model has one look, and marks of any age.
- `Feed`: a session that fails at every sweep stays the oldest due, and with as many of
  them as a sweep has calls the younger ones wait for ever; failures are bounded here.
  A restored snapshot takes the coverage back with the notes.
- `Record`: an index that loses rows while the service runs is found at the next start
  only; damage happens between runs here.
- `Persons`: a restore that dies, which `Restore` has.
