----------------------------- MODULE Migrations -----------------------------
(***************************************************************************)
(* Replicas of the memory service that migrate the schema when they start: *)
(* run_migrations in services/memory/app/migrations.py, called from the    *)
(* lifespan of main.py.  The replicas run different releases during a      *)
(* rollout, and may die anywhere.                                          *)
(***************************************************************************)
EXTENDS Naturals

CONSTANTS
  Replicas,
  Releases,    (* how many migration files each release in use comes with  *)
  LastFile,    (* the files are numbered 1 to LastFile, as their names are *)
               (* sorted; a release has an initial part of them            *)
  None

ASSUME FilesAssumption   == LastFile \in Nat /\ Releases \subseteq 0..LastFile
ASSUME ReplicaAssumption == None \notin Replicas

VARIABLES
  lock,        (* the session that holds the advisory lock                 *)
  stamped,     (* the rows of schema_migrations                            *)
  executed,    (* how often the SQL of each file has taken effect          *)
  replica      (* where run_migrations is in each replica, the files its   *)
               (* release has, and the versions it read or stamped         *)

migrationsVars == <<lock, stamped, executed, replica>>

Files  == 1..LastFile
Phases == {"down", "locking", "reading", "applying", "failing", "serving"}

MigrationsTypeOK ==
  /\ lock \in Replicas \cup {None}
  /\ stamped \subseteq Files
  /\ executed \in [Files -> 0..1]
  /\ replica \in [Replicas -> [phase : Phases, files : Releases \cup {0}, applied : SUBSET Files]]

Down == [phase |-> "down", files |-> 0, applied |-> {}]

MigrationsInit ==
  /\ lock = None
  /\ stamped = {}
  /\ executed = [f \in Files |-> 0]
  /\ replica = [r \in Replicas |-> Down]

At(r, p)      == replica[r].phase = p
GoTo(r, next) == replica' = [replica EXCEPT ![r].phase = next]

(* The files run_migrations has still to go through.                       *)
Pending(r) == (1..replica[r].files) \ replica[r].applied
-----------------------------------------------------------------------------
(* A replica is started, with the files of its release, and asks for the   *)
(* lock on a connection of its own.                                        *)
Start(r) ==
  /\ At(r, "down")
  /\ \E n \in Releases :
       replica' = [replica EXCEPT ![r] = [phase |-> "locking", files |-> n, applied |-> {}]]
  /\ UNCHANGED <<lock, stamped, executed>>

(* Faulty variant: the lock is not waited for.                             *)
LockOrGoOn(r) ==
  /\ At(r, "locking")
  /\ lock' = IF lock = None THEN r ELSE lock
  /\ GoTo(r, "reading")
  /\ UNCHANGED <<stamped, executed>>

Lock(r) ==
  /\ At(r, "locking")
  /\ lock = None
  /\ lock' = r
  /\ GoTo(r, "reading")
  /\ UNCHANGED <<stamped, executed>>

(* schema_migrations is created if need be, and read.                      *)
ReadApplied(r) ==
  /\ At(r, "reading")
  /\ replica' = [replica EXCEPT ![r] = [phase |-> "applying", files |-> @.files,
                                        applied |-> stamped]]
  /\ UNCHANGED <<lock, stamped, executed>>

(* Faulty variants: the files come in the order of the directory; a file   *)
(* is stamped in a transaction of its own, which may not happen any more.  *)
ApplyUnsorted(r) ==
  \E f \in Pending(r) :
    /\ At(r, "applying")
    /\ f \notin stamped
    /\ executed' = [executed EXCEPT ![f] = @ + 1]
    /\ stamped' = stamped \cup {f}
    /\ replica' = [replica EXCEPT ![r].applied = @ \cup {f}]
    /\ UNCHANGED lock

ApplyThenStamp(r) ==
  \E f \in Pending(r) :
    /\ At(r, "applying")
    /\ f \notin stamped /\ \A g \in Pending(r) : f <= g
    /\ executed' = [executed EXCEPT ![f] = @ + 1]
    /\ \/ stamped' = stamped \cup {f} /\ replica' = [replica EXCEPT ![r].applied = @ \cup {f}]
       \/ stamped' = stamped /\ GoTo(r, "failing")
    /\ UNCHANGED lock

(* The first pending file: its SQL and its stamp in one transaction, which *)
(* the primary key of schema_migrations lets commit only once.             *)
Apply(r) ==
  \E f \in Pending(r) :
    /\ At(r, "applying")
    /\ f \notin stamped /\ \A g \in Pending(r) : f <= g
    /\ executed' = [executed EXCEPT ![f] = @ + 1]
    /\ stamped' = stamped \cup {f}
    /\ replica' = [replica EXCEPT ![r].applied = @ \cup {f}]
    /\ UNCHANGED lock

(* The transaction is rolled back: a mistake in the SQL, or the stamp of   *)
(* another replica.                                                        *)
ApplyFails(r) ==
  /\ At(r, "applying")
  /\ Pending(r) # {}
  /\ GoTo(r, "failing")
  /\ UNCHANGED <<lock, stamped, executed>>

Release(r) == lock' = IF lock = r THEN None ELSE lock

(* Faulty variant: neither finally is there when a file fails.             *)
GiveUpKeepsLock(r) ==
  /\ At(r, "failing")
  /\ replica' = [replica EXCEPT ![r] = Down]
  /\ UNCHANGED <<lock, stamped, executed>>

(* The finally clauses unlock and close the connection; the exception goes *)
(* on and ends the process.                                                *)
GiveUp(r) ==
  /\ At(r, "failing")
  /\ Release(r)
  /\ replica' = [replica EXCEPT ![r] = Down]
  /\ UNCHANGED <<stamped, executed>>

(* Faulty variant: a failed migration is logged, and the replica goes on.  *)
ServeAnyway(r) ==
  /\ \/ At(r, "applying") /\ Pending(r) = {}
     \/ At(r, "failing")
  /\ Release(r)
  /\ GoTo(r, "serving")
  /\ UNCHANGED <<stamped, executed>>

(* All files are there; the replica unlocks, and starts to serve.          *)
Serve(r) ==
  /\ At(r, "applying")
  /\ Pending(r) = {}
  /\ Release(r)
  /\ GoTo(r, "serving")
  /\ UNCHANGED <<stamped, executed>>

(* The process dies or is stopped; Postgres rolls back its transaction and *)
(* releases its lock with its connection.                                  *)
Crash(r) ==
  /\ ~At(r, "down")
  /\ Release(r)
  /\ replica' = [replica EXCEPT ![r] = Down]
  /\ UNCHANGED <<stamped, executed>>

Progress(r) == Lock(r) \/ ReadApplied(r) \/ Apply(r) \/ ApplyFails(r) \/ GiveUp(r) \/ Serve(r)

MigrationsNext == \E r \in Replicas : Start(r) \/ Progress(r) \/ Crash(r)

MigrationsSpec == MigrationsInit /\ [][MigrationsNext]_migrationsVars

(* Postgres executes what it is sent and grants a lock in the order it was *)
(* asked for.                                                              *)
MigrationsFairSpec ==
  /\ MigrationsSpec
  /\ \A r \in Replicas :
       /\ SF_migrationsVars(Lock(r))
       /\ WF_migrationsVars(ReadApplied(r)) /\ WF_migrationsVars(Apply(r) \/ ApplyFails(r))
       /\ WF_migrationsVars(GiveUp(r))      /\ WF_migrationsVars(Serve(r))
-----------------------------------------------------------------------------
(* "each file runs exactly once per database" (migrations.py): however     *)
(* replicas start together, die and start again, the SQL of a file takes   *)
(* effect when it is stamped and never again.                              *)
AppliedOnce ==
  \A f \in Files : executed[f] = IF f \in stamped THEN 1 ELSE 0

(* "applied in order": no file takes effect before those sorted before it, *)
(* also when releases with more and with fewer files start by turns.       *)
AppliedInOrder ==
  \A f \in stamped : 1..f \subseteq stamped

(* A replica that serves requests has all tables its release relies on     *)
(* (the lifespan runs run_migrations before it connects the repository).   *)
ServesItsSchema ==
  \A r \in Replicas : At(r, "serving") => 1..replica[r].files \subseteq stamped

(* "concurrent replicas cannot race": the versions a replica has read stay *)
(* up to date while it works through its files, so that it never runs into *)
(* the stamp of another.                                                   *)
NeverOvertaken ==
  \A r \in Replicas : At(r, "applying") => replica[r].applied = stamped

(* A replica that waits for the lock gets to serve, whatever the others do *)
(* with it, unless it dies or its own SQL fails (the two finally clauses). *)
NoStarvation ==
  \A r \in Replicas : At(r, "locking") ~> At(r, "serving") \/ At(r, "down")
=============================================================================
