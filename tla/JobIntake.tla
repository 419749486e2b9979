----------------------------- MODULE JobIntake ------------------------------
(***************************************************************************)
(* How postings become jobs: the loop of the fetch worker over what a      *)
(* portal returned, and the posting a user shares from the extension.      *)
(* Both ask DedupeService first, in steps separated by awaits, and insert, *)
(* remember and publish in steps of their own; Redis and the broker may    *)
(* fail at any of them.                                                    *)
(***************************************************************************)
EXTENDS Integers, Sequences, FiniteSets

CONSTANTS Posting, Intake,    \* what is found; the running fetches and shares
          Url, Hash, ExtId,   \* [Posting -> ...]: link, content hash, portal and
                              \* its id; a share without one has its link there
          NoUrl,              \* a posting without a link
          MaxFound,           \* bound: postings one fetch finds
          MaxStored,          \* bound: jobs stored
          MaxIntakes          \* bound: fetches and shares begun

ASSUME IntakeAssumption ==
    {MaxFound, MaxStored, MaxIntakes} \subseteq Nat /\ {DOMAIN Url, DOMAIN Hash, DOMAIN ExtId} = {Posting}

VARIABLES stored,     \* the jobs, in the order of their insertion; "match" is
                      \* history: what became of the publication for matching
          bloom,      \* hashes in the Redis set of the user
          intake,     \* the running requests
          begun       \* how many of them were begun

intakeVars == <<stored, bloom, intake, begun>>

Source == {"portal", "extension"}
IntakePC == {"idle", "bloom", "url", "ext", "mark", "insert", "remember", "publish"}
Stored == DOMAIN stored

Resting == [pc |-> "idle", src |-> "portal", todo |-> {}, job |-> 0, item |-> {}]

(* the next posting of the fetch, or the end of the request *)
Further(r) == IF r.todo = {} THEN {Resting}
              ELSE {[r EXCEPT !.pc = "bloom", !.item = {x}, !.todo = @ \ {x}, !.job = 0]: x \in r.todo}

Begins == begun < MaxIntakes /\ begun' = begun + 1
At(p, pc) == intake[p].pc = pc
Item(p) == CHOOSE x \in intake[p].item: TRUE
Step(p, pc) == intake' = [intake EXCEPT ![p].pc = pc]
Onto(p) == \E r \in Further(intake[p]): intake' = [intake EXCEPT ![p] = r]

(* is_duplicate said yes: a fetch skips the posting, a share looks for it *)
Duplicate(p) == IF intake[p].src = "portal" THEN Onto(p) ELSE Step(p, "mark")

SameHash(x) == {c \in Stored: Hash[stored[c].posting] = Hash[x]}
SameUrl(x) == {c \in Stored: Url[x] # NoUrl /\ Url[stored[c].posting] = Url[x]}
SameExt(x) == {c \in Stored: ExtId[stored[c].posting] = ExtId[x]}

(***************************************************************************)
(* The requests.                                                           *)
(***************************************************************************)
StartFetch(p) ==
    /\ Begins /\ At(p, "idle")
    /\ \E found \in {ps \in SUBSET Posting: Cardinality(ps) \in 1..MaxFound}:
         \E r \in Further([Resting EXCEPT !.todo = found]):
           intake' = [intake EXCEPT ![p] = r]
    /\ UNCHANGED <<stored, bloom>>

StartShare(p) ==
    /\ Begins /\ At(p, "idle")
    /\ \E x \in Posting:
         intake' = [intake EXCEPT ![p] = [Resting EXCEPT !.pc = "bloom", !.src = "extension",
                                                         !.item = {x}]]
    /\ UNCHANGED <<stored, bloom>>

(* the set first, the database only when the set knows the hash *)
AskBloom(p) ==
    /\ At(p, "bloom")
    /\ IF Hash[Item(p)] \in bloom /\ SameHash(Item(p)) # {} THEN Duplicate(p) ELSE Step(p, "url")
    /\ UNCHANGED <<stored, bloom, begun>>

(* Redis raises: swallowed, the other questions remain *)
BloomFails(p) ==
    /\ At(p, "bloom")
    /\ Step(p, "url")
    /\ UNCHANGED <<stored, bloom, begun>>

(* mutant: only the applied jobs are asked for *)
AskDatabaseForApplied(p) ==
    /\ At(p, "url")
    /\ IF \E c \in SameHash(Item(p)) \union SameUrl(Item(p)): stored[c].status = "applied"
       THEN Duplicate(p)
       ELSE Step(p, IF intake[p].src = "portal" THEN "ext" ELSE "insert")
    /\ UNCHANGED <<stored, bloom, begun>>

(* a job with the link, then a job applied to with the hash or the link *)
AskDatabase(p) ==
    /\ At(p, "url")
    /\ IF SameUrl(Item(p)) # {} \/ \E c \in SameHash(Item(p)): stored[c].status = "applied"
       THEN Duplicate(p)
       ELSE Step(p, IF intake[p].src = "portal" THEN "ext" ELSE "insert")
    /\ UNCHANGED <<stored, bloom, begun>>

AskExternalId(p) ==
    /\ At(p, "ext")
    /\ IF SameExt(Item(p)) # {} THEN Onto(p) ELSE Step(p, "insert")
    /\ UNCHANGED <<stored, bloom, begun>>

(* the share of a known posting: the stored job becomes the duplicate; a   *)
(* job known by its link only is not found by hash, and a new one stored   *)
MarkDuplicate(p) ==
    /\ At(p, "mark")
    /\ \/ \E c \in SameHash(Item(p)):
            /\ stored' = [stored EXCEPT ![c].status = "duplicate"]
            /\ intake' = [intake EXCEPT ![p] = Resting]
       \/ SameHash(Item(p)) = {} /\ Step(p, "insert") /\ UNCHANGED stored
    /\ UNCHANGED <<bloom, begun>>

(* mutant: off by one *)
InsertJobBefore(p) ==
    /\ At(p, "insert") /\ Len(stored) < MaxStored
    /\ stored' = Append(stored, [posting |-> Item(p), src |-> intake[p].src, by |-> p,
                                 status |-> "new", match |-> "held"])
    /\ intake' = [intake EXCEPT ![p].pc = "remember", ![p].job = Len(stored)]
    /\ UNCHANGED <<bloom, begun>>

InsertJob(p) ==
    /\ At(p, "insert") /\ Len(stored) < MaxStored
    /\ stored' = Append(stored, [posting |-> Item(p), src |-> intake[p].src, by |-> p,
                                 status |-> "new", match |-> "held"])
    /\ intake' = [intake EXCEPT ![p].pc = "remember", ![p].job = Len(stored) + 1]
    /\ UNCHANGED <<bloom, begun>>

(* mutant: Redis raises, and the rest of the posting is passed over *)
RememberOrPass(p) ==
    /\ At(p, "remember")
    /\ \/ bloom' = bloom \union {Hash[Item(p)]} /\ Step(p, "publish")
       \/ bloom' = bloom /\ Onto(p)
    /\ UNCHANGED <<stored, begun>>

Remember(p) ==
    /\ At(p, "remember")
    /\ bloom' \in {bloom, bloom \union {Hash[Item(p)]}}
    /\ Step(p, "publish")
    /\ UNCHANGED <<stored, begun>>

Publish(p) ==
    /\ At(p, "publish")
    /\ stored' = [stored EXCEPT ![intake[p].job].match = "published"]
    /\ Onto(p)
    /\ UNCHANGED <<bloom, begun>>

(* a fetch logs the failure and goes on; in a share it is raised *)
PublishJobFails(p) ==
    /\ At(p, "publish")
    /\ stored' = [stored EXCEPT ![intake[p].job].match = "failed"]
    /\ IF intake[p].src = "portal" THEN Onto(p) ELSE intake' = [intake EXCEPT ![p] = Resting]
    /\ UNCHANGED <<bloom, begun>>

(* the process dies; the fetch that is delivered again starts over *)
Dies(p) ==
    /\ ~At(p, "idle")
    /\ stored' = IF intake[p].pc \in {"remember", "publish"}
                 THEN [stored EXCEPT ![intake[p].job].match = "failed"] ELSE stored
    /\ intake' = [intake EXCEPT ![p] = Resting]
    /\ UNCHANGED <<bloom, begun>>

(* elsewhere: the apply worker submits an application for the job *)
Submitted(c) ==
    /\ stored[c].status = "new"
    /\ stored' = [stored EXCEPT ![c].status = "applied"]
    /\ UNCHANGED <<bloom, intake, begun>>

IntakeInit == /\ stored = <<>> /\ bloom = {} /\ begun = 0
              /\ intake = [p \in Intake |-> Resting]

IntakeNext ==
    \/ \E c \in Stored: Submitted(c)
    \/ \E p \in Intake:
         \/ StartFetch(p) \/ StartShare(p) \/ AskBloom(p) \/ BloomFails(p) \/ AskDatabase(p)
         \/ AskExternalId(p) \/ MarkDuplicate(p) \/ InsertJob(p)
         \/ Remember(p) \/ Publish(p) \/ PublishJobFails(p) \/ Dies(p)

IntakeSpec == IntakeInit /\ [][IntakeNext]_intakeVars

(***************************************************************************)
(* Properties.                                                             *)
(***************************************************************************)
(* Jobs and requests keep their types; a request past its insertion holds  *)
(* the job it stored.                                                      *)
IntakeTypes ==
    /\ \A c \in Stored: stored[c] \in
         [posting: Posting, src: Source, by: Intake, match: {"held", "published", "failed"},
          status: {"new", "applied", "duplicate"}]
    /\ begun \in 0..MaxIntakes /\ bloom \subseteq {Hash[x]: x \in Posting}
    /\ intake \in [Intake -> [pc: IntakePC, src: Source, todo: SUBSET Posting, job: Nat,
                              item: SUBSET Posting]]
    /\ \A p \in Intake: /\ intake[p].pc # "idle" => intake[p].item # {}
                        /\ intake[p].pc \in {"remember", "publish"} => intake[p].job \in Stored

(* Two stored jobs of one link, or of one id of a portal, were inserted by *)
(* requests that overlapped, unless the second is a share: one of a known  *)
(* link in other words, or one of a known id, which only fetches ask for,  *)
(* when Redis does not know its hash and it has no link or another one.    *)
(* (An equal hash alone does not make one posting: it ignores case, which  *)
(* the look-up of the link does not.)                                      *)
StoredOnce ==
    \A c, d \in Stored:
      LET x == stored[c].posting
          y == stored[d].posting
      IN  c < d /\ stored[c].by = stored[d].by =>
            /\ Url[x] = Url[y] /\ Url[x] # NoUrl =>
                 stored[d].src = "extension" /\ Hash[x] # Hash[y]
            /\ ExtId[x] = ExtId[y] => stored[d].src = "extension"

(* A stored job that is neither published for matching nor was refused by  *)
(* the broker or cut off by a crash is in the hands of the request that    *)
(* stored it: there is no other way to lose it, and nobody tries again.    *)
StoredIsPublished ==
    \A c \in Stored:
      stored[c].match = "held" =>
         intake[stored[c].by].pc \in {"remember", "publish"} /\ intake[stored[c].by].job = c
=============================================================================
