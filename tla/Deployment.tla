----------------------------- MODULE Deployment -----------------------------
(* A deploy (deploy/deploy.sh over compose.prod.yaml): the environment is  *)
(* checked, the containers recreated; migrate runs, then seed, then the    *)
(* backend, each only after the one before ended well; the release is      *)
(* recorded when the backend answers. Beside it the database is migrated   *)
(* or taken back by hand, and rows are written by the program of an        *)
(* earlier version or by this one. Composes SchemaMigrations, ContentSeed. *)
EXTENDS SchemaMigrations, ContentSeed

CONSTANT MaxDeploys        \* bound: deploys that begin

ASSUME DeployAssumption == MaxDeploys \in Nat

VARIABLES backend,         \* "old", "down" or "new": the program that serves
          stage,           \* of the deploy: "none" when there is none
          deploys

deployVars == <<backend, stage, deploys>>
vars       == <<migrationVars, seedVars, deployVars>>

-----------------------------------------------------------------------------
\* deploy.sh stops here when a variable of the .env is not as the programs need
\* it, before any container is touched. An old program's container is replaced
\* when the new one is created; this program's stays when its image is the same.
BeginDeploy ==
    /\ stage = "none" /\ ~tx.on /\ deploys < MaxDeploys
    /\ deploys' = deploys + 1
    /\ stage' = "migrate"
    /\ backend' \in {"down"} \cup (IF backend = "new" THEN {"new"} ELSE {})
    /\ UNCHANGED <<migrationVars, seedVars>>

\* The service migrate: nothing is pending, or all that is runs in a transaction.
StartMigrate ==
    /\ stage = "migrate"
    /\ \/ version = Latest /\ stage' = "seed" /\ UNCHANGED migrationVars
       \/ Begin(Latest) /\ stage' = "migrating"
    /\ UNCHANGED <<seedVars, backend, deploys>>

\* service_completed_successfully; otherwise "up" fails and deploy.sh ends.
MigrateEnds ==
    /\ stage = "migrating" /\ ~tx.on
    /\ stage' = IF version = Latest THEN "seed" ELSE "none"
    /\ UNCHANGED <<migrationVars, seedVars, backend, deploys>>

RunSeed ==
    /\ stage = "seed" /\ StartSeed
    /\ stage' = "seeding"
    /\ UNCHANGED <<migrationVars, backend, deploys>>

SeedStep ==
    /\ stage = "seeding"
    /\ \/ SeedWork /\ UNCHANGED stage
       \/ CommitSeed /\ stage' = "start"
       \/ SeedFails /\ stage' = "none"
    /\ UNCHANGED <<migrationVars, backend, deploys>>

StartBackend ==
    /\ stage = "start"
    /\ backend' = "new"
    /\ stage' = "check"
    /\ UNCHANGED <<migrationVars, seedVars, deploys>>

\* wait_healthy, check_status and releases.log: however the checks come out, the
\* containers are left as they are.
CheckRelease ==
    /\ stage = "check"
    /\ stage' = "none"
    /\ UNCHANGED <<migrationVars, seedVars, backend, deploys>>

-----------------------------------------------------------------------------
\* By hand, outside a deploy

Beside(step) == stage = "none" /\ step /\ UNCHANGED <<stage, deploys>>

\* Bound: the database is migrated or taken back by hand where a deploy can follow.
DeployFollows == deploys < MaxDeploys

\* npm run db:migrate, all or up to 11 or 12, with the earlier program up or down
MigrateByHand ==
    Beside(/\ backend # "new"
           /\ DeployFollows
           /\ \E to \in 11..Latest : Begin(to)
           /\ UNCHANGED <<seedVars, backend>>)

\* npm run db:rollback: with migration 11 go its columns (seed_key and updated_by
\* among them) and tables; the account of the Admin stays, without the mark.
RollbackByHand ==
    Beside(/\ backend # "new"
           /\ DeployFollows
           /\ \E to \in 10..12 :
                  /\ Rollback(to)
                  /\ IF to >= 11 THEN UNCHANGED seedVars
                     ELSE /\ content' = [id \in DOMAIN content |->
                                            [content[id] EXCEPT !.key = NoKey, !.edited = FALSE]]
                          /\ base' = [name \in Once |-> IF name = "admin" /\ base["admin"] # "none"
                                                        THEN "plain" ELSE "none"]
                          /\ owned' = {} /\ UNCHANGED <<seed, raced, edits, seeds>>
           /\ UNCHANGED backend)

CorrectByHand == Beside(Correct /\ UNCHANGED <<seedVars, backend>>)

\* The operator stops the backend, or starts the earlier program again.
SwitchByHand ==
    Beside(/\ ~tx.on
           /\ \/ backend # "down" /\ backend' = "down"
              \/ backend = "down" /\ version < Latest /\ backend' = "old"
           /\ UNCHANGED <<migrationVars, seedVars>>)

RunnerSteps == Runner /\ UNCHANGED <<seedVars, deployVars>>

\* Whoever serves writes. The bounds of rows and of saves are one bound here.
BoundLeft == writes + edits < MaxWrites

RowsWritten ==
    /\ BoundLeft
    /\ \/ backend = "old" /\ OldWrites
       \/ backend = "new" /\ NewWrites
       \/ HandWrite
    /\ UNCHANGED <<seedVars, deployVars>>

PanelWrites ==
    /\ BoundLeft /\ backend = "new" /\ PanelSteps
    /\ UNCHANGED <<migrationVars, deployVars>>

-----------------------------------------------------------------------------
Init == InitMigrations /\ InitSeed /\ backend = "old" /\ stage = "none" /\ deploys = 0

Next ==
    \/ BeginDeploy \/ StartMigrate \/ MigrateEnds \/ RunSeed \/ SeedStep \/ StartBackend \/ CheckRelease
    \/ MigrateByHand \/ RollbackByHand \/ CorrectByHand \/ SwitchByHand
    \/ RunnerSteps \/ RowsWritten \/ PanelWrites

Spec == Init /\ [][Next]_vars

-----------------------------------------------------------------------------
\* The program that serves finds what it was written for: every row under the
\* schema of the last migration, and the filed content, each item once, under the
\* ids it had before; no deploy, failed, repeated or after a rollback, starts it
\* on less.
ServesFiledContent ==
    backend = "new" => version = Latest /\ RowsMeetSchema /\ ContentFiled

=============================================================================
