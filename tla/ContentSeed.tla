---------------------------- MODULE ContentSeed ----------------------------
(* The seed (db/seeds): one transaction that brings the filed categories   *)
(* and questions to the database, creates what is needed once (the Admin,  *)
(* the schedule, the WhatsApp row) and leaves alone what the panel edited. *)
(* The transaction reads what others commit while it runs; a change of a   *)
(* row it has written waits for it. The panel is modelled by its effect: a *)
(* saved row has other values, other documents and its updated_by set.     *)
EXTENDS Integers, Sequences, FiniteSets, FiniteSetsExt

CONSTANTS File,          \* the filed items, in order: [key, of], of a category or of NoKey
          Present,       \* the contents the first seed may find
          MaxEdits,      \* bound: rows saved by the panel
          MaxSeeds       \* bound: runs of the seed that begin

NoKey    == "no key"
Once     == {"admin", "schedule", "ranges", "documents", "whatsapp"}
ItemKeys == {File[i].key : i \in 1..Len(File)}

\* What an earlier seed left: a row without key, which no panel has edited.
OldRow(title, of) == [key |-> NoKey, title |-> title, of |-> of, values |-> "old", docs |-> "old",
                      edited |-> FALSE]

\* No key is filed twice (procon-faq.data.test.ts); a question comes after its
\* category. "other" stands for the titles that are not filed.
ASSUME SeedAssumption ==
    /\ {MaxEdits, MaxSeeds} \subseteq Nat
    /\ File \in Seq([key: ItemKeys, of: ItemKeys \cup {NoKey}]) /\ File # <<>>
    /\ \A i, j \in 1..Len(File) : File[i].key = File[j].key => i = j
    /\ NoKey \notin ItemKeys /\ "other" \notin ItemKeys
    /\ \A i \in 1..Len(File) :
           File[i].of = NoKey \/ \E j \in 1..(i - 1) : File[j].key = File[i].of /\ File[j].of = NoKey
    /\ \A c \in Present : /\ IsFiniteSet(DOMAIN c)
                          /\ c = [id \in 1..Cardinality(DOMAIN c) |-> OldRow(c[id].title, c[id].of)]

VARIABLES content,   \* the committed rows of Categories and Questions, by id
          base,      \* what is created once: "none", "initial", "staff" (changed since), or
                     \* "plain": the Admin's account, no longer marked as Admin
          seed,      \* the transaction: its step and item, the row it found, its own writes
          owned,     \* history: the rows the panel saved
          raced,     \* history: those of them that were saved while a seed ran
          edits, seeds

seedVars == <<content, base, seed, owned, raced, edits, seeds>>

Asleep  == [step |-> "idle", at |-> 1, row |-> 0, parent |-> [k \in ItemKeys |-> 0],
            mine |-> <<>>, made |-> {}]
Running == seed.step # "idle"
Item    == File[seed.at]

\* What the transaction sees: what is committed, and its own writes.
View == [id \in DOMAIN content \cup DOMAIN seed.mine |->
            IF id \in DOMAIN seed.mine THEN seed.mine[id] ELSE content[id]]

Parent   == IF Item.of = NoKey THEN 0 ELSE seed.parent[Item.of]
Wrote(s, id, row) == [s EXCEPT !.mine = [x \in DOMAIN @ \cup {id} |-> IF x = id THEN row ELSE @[x]]]

\* The item is done, its row known: on to the next, or to the configuration.
Done(s, id) ==
    [s EXCEPT !.parent[Item.key] = id, !.row = 0,
              !.at   = IF @ = Len(File) THEN @ ELSE @ + 1,
              !.step = IF s.at = Len(File) THEN "config" ELSE "find"]

-----------------------------------------------------------------------------
\* run.ts: BEGIN, the lock (a second run waits here), the Admin. (Beside a plain
\* account of the same e-mail the INSERT fails until ROOT_EMAIL names another.)
StartSeed ==
    /\ ~Running /\ seeds < MaxSeeds /\ seeds' = seeds + 1
    /\ seed' = [Asleep EXCEPT !.step = "find",
                              !.made = IF base["admin"] \in {"none", "plain"} THEN {"admin"} ELSE {}]
    /\ UNCHANGED <<content, base, owned, raced, edits>>

Moves(next) == seed' = next /\ UNCHANGED <<content, base, owned, raced, edits, seeds>>

FindBySeedKey ==
    /\ seed.step = "find"
    /\ \/ /\ \A id \in DOMAIN View : View[id].key # Item.key
          /\ Moves([seed EXCEPT !.step = "match"])
       \/ \E id \in DOMAIN View :
              /\ View[id].key = Item.key
              /\ Moves(IF View[id].edited THEN Done(seed, id)
                       ELSE [seed EXCEPT !.step = "update", !.row = id])

\* The rows without key that bear the title of the item; the smallest id is taken.
Candidates == {id \in DOMAIN View : /\ View[id].key = NoKey /\ View[id].title = Item.key
                                    /\ View[id].of = Parent}

FiledRow == [key |-> Item.key, title |-> Item.key, of |-> Parent, values |-> "filed",
             docs |-> "filed", edited |-> FALSE]

\* Variant: rows without key are not looked for.
BackfillOrInsert_NoBackfill ==
    /\ seed.step = "match"
    /\ LET id == Cardinality(DOMAIN View) + 1
       IN  Moves(Done(Wrote(seed, id, FiledRow), id))

\* The rows are read and the key is set in one step: the panel is up only where
\* every item has its key (ServesFiledContent), and then nothing is looked for by
\* its title.
BackfillOrInsert ==
    /\ seed.step = "match"
    /\ IF Candidates = {}
       THEN LET id == Cardinality(DOMAIN View) + 1
            IN  Moves(Done(Wrote(seed, id, FiledRow), id))
       ELSE LET id     == Min(Candidates)
                filled == Wrote(seed, id, [View[id] EXCEPT !.key = Item.key])
            IN  Moves(IF View[id].edited THEN Done(filled, id)
                      ELSE [filled EXCEPT !.step = "update", !.row = id])

\* Variant: the UPDATE asks for nothing but the id.
UpdateRow_Unguarded ==
    /\ seed.step = "update"
    /\ LET old   == View[seed.row]
           new   == [old EXCEPT !.title = Item.key, !.values = "filed"]
           after == IF new # old THEN Wrote(seed, seed.row, new) ELSE seed
       IN  Moves(IF Item.of = NoKey THEN Done(after, seed.row) ELSE [after EXCEPT !.step = "docs"])

\* UPDATE ... WHERE updated_by IS NULL AND (... IS DISTINCT FROM ...)
UpdateRow ==
    /\ seed.step = "update"
    /\ LET old   == View[seed.row]
           new   == [old EXCEPT !.title = Item.key, !.values = "filed"]
           after == IF ~old.edited /\ new # old THEN Wrote(seed, seed.row, new) ELSE seed
       IN  Moves(IF Item.of = NoKey THEN Done(after, seed.row) ELSE [after EXCEPT !.step = "docs"])

\* The documents are read; they are replaced when they differ from the filed list.
SyncRequiredDocuments ==
    /\ seed.step = "docs"
    /\ Moves(IF View[seed.row].docs = "filed" THEN Done(seed, seed.row)
             ELSE [seed EXCEPT !.step = "replace"])

\* DELETE and INSERTs, which do not look at updated_by again: what the panel saved
\* since the row was found is replaced too, or stays beside the filed documents when
\* its COMMIT fell into the DELETE.
ReplaceDocuments ==
    /\ seed.step = "replace"
    /\ LET old == View[seed.row]
       IN  \E docs \in {"filed"} \cup (IF old.edited THEN {"mixed"} ELSE {}) :
               Moves(Done(Wrote(seed, seed.row, [old EXCEPT !.docs = docs]), seed.row))

\* The schedule's row stands for its lists; these are filled only where empty.
SeedInitialConfig ==
    /\ seed.step = "config"
    /\ Moves([seed EXCEPT !.step = "whatsapp", !.made = @ \cup
                 IF base["schedule"] # "none" THEN {}
                 ELSE {name \in {"schedule", "ranges", "documents"} : base[name] = "none"}])

SeedWhatsApp ==
    /\ seed.step = "whatsapp"
    /\ Moves([seed EXCEPT !.step = "commit",
                          !.made = @ \cup IF base["whatsapp"] = "none" THEN {"whatsapp"} ELSE {}])

CommitSeed ==
    /\ seed.step = "commit"
    /\ content' = View
    /\ base' = [name \in Once |-> IF name \in seed.made THEN "initial" ELSE base[name]]
    /\ seed' = Asleep
    /\ UNCHANGED <<owned, raced, edits, seeds>>

\* An error (a variable missing for the Admin, the database, the process): ROLLBACK.
SeedFails ==
    /\ Running /\ seed' = Asleep
    /\ UNCHANGED <<content, base, owned, raced, edits, seeds>>

-----------------------------------------------------------------------------
\* The panel (external): a category or a question is saved; its title may change.
PanelSaves(id) ==
    /\ edits < MaxEdits /\ edits' = edits + 1
    /\ id \notin DOMAIN seed.mine
    /\ \E title \in {content[id].title, "other"} :
           content' = [content EXCEPT ![id] = [@ EXCEPT !.title = title, !.values = "panel",
                                                        !.docs = "panel", !.edited = TRUE]]
    /\ owned' = owned \cup {id}
    /\ raced' = IF Running THEN raced \cup {id} ELSE raced
    /\ UNCHANGED <<base, seed, seeds>>

\* A password changed, the WhatsApp settings saved.
StaffChanges(name) ==
    /\ base[name] = "initial"
    /\ edits < MaxEdits /\ edits' = edits + 1
    /\ base' = [base EXCEPT ![name] = "staff"]
    /\ UNCHANGED <<content, seed, owned, raced, seeds>>

-----------------------------------------------------------------------------
InitSeed ==
    /\ content \in Present
    /\ base = [name \in Once |-> "none"]
    /\ seed = Asleep
    /\ owned = {id \in DOMAIN content : content[id].edited} /\ raced = {}
    /\ edits = 0 /\ seeds = 0

SeedWork ==
    \/ FindBySeedKey \/ BackfillOrInsert \/ UpdateRow \/ SyncRequiredDocuments
    \/ ReplaceDocuments \/ SeedInitialConfig \/ SeedWhatsApp

PanelSteps ==
    \/ \E id \in DOMAIN content : PanelSaves(id)
    \/ \E name \in {"admin", "whatsapp"} : StaffChanges(name)

-----------------------------------------------------------------------------
\* Every filed item has one row: the first of those that bore its title, if any,
\* or a new one; it is as filed until the panel saves it; nothing is missing of
\* what is created once.
ContentFiled ==
    /\ \A i \in 1..Len(File) :
           LET rows == {id \in DOMAIN content : content[id].key = File[i].key}
           IN  \E id \in rows :
                   /\ rows = {id}
                   /\ \/ content[id].edited
                      \/ content[id].values = "filed" /\ (File[i].of = NoKey \/ content[id].docs = "filed")
                   /\ \A other \in DOMAIN content :
                          /\ content[other].key = NoKey /\ content[other].title = File[i].key
                          /\ content[other].of = content[id].of
                          => id < other
    /\ \A name \in Once : base[name] \in {"initial", "staff"}

\* What the panel saved stays: the values always, the documents unless the row was
\* saved while a seed had found it unedited.
PanelEditsStay ==
    \A id \in owned : /\ content[id].edited /\ content[id].values = "panel"
                      /\ id \in raced \/ content[id].docs = "panel"

=============================================================================
