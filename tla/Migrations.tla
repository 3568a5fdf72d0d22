----------------------------- MODULE Migrations -----------------------------
(***************************************************************************)
(* The start of the server (cmd/server/main.go and migrations.go): the     *)
(* numbered .sql files of the image that schema_migrations does not list   *)
(* are applied and recorded one by one before the server serves.           *)
(*                                                                         *)
(* A file without parameters is sent as one simple query, which PostgreSQL *)
(* runs as one transaction: a file takes effect as a whole or not at all.  *)
(***************************************************************************)
EXTENDS Naturals

CONSTANTS
    File,       \* the files of all images there will ever be
    Version,    \* Version[f] is the number f's name starts with
    Images,     \* the images that may be deployed, each a set of files
    Base,       \* the file that creates the tables all others alter
    Creates,    \* files that cannot run twice: "already exists" (42P07)
    None,
    MaxFaults,  \* bound: statements that fail
    MaxCrashes  \* bound: stops of the process

\* What the constants must satisfy; Server assumes it.
MigrationsAssumption ==
    /\ Version \in [File -> Nat]
    /\ Base \in File /\ \A f \in File \ {Base} : Version[Base] < Version[f]
    /\ Creates \subseteq File
    /\ \A fs \in Images : fs \subseteq File /\ Base \in fs
    /\ None \notin File
    /\ MaxFaults \in Nat /\ MaxCrashes \in Nat

VARIABLES
    phase,      \* what main is at
    image,      \* the files of the image that is deployed
    schema,     \* the files whose statements have taken effect
    recorded,   \* the rows of schema_migrations
    pending,    \* the files this start has still to apply
    current,    \* the file that has been applied and not recorded
    served,     \* the files in effect when a server that knows them served (history)
    again,      \* the files that ran again after that (history)
    cut,        \* the query of the versions once ended early (history)
    breaks, crashes

ownVars == <<phase, image, schema, recorded, pending, current, served, again, cut>>
vars == <<ownVars, breaks, crashes>>

TypeOK ==
    /\ phase \in {"down", "apply", "record", "ensure", "serving"}
    /\ image \subseteq File /\ schema \subseteq File /\ pending \subseteq File
    /\ recorded \subseteq {Version[f] : f \in File}
    /\ current \in File \cup {None}
    /\ served \subseteq schema /\ again \subseteq served
    /\ cut \in BOOLEAN
    /\ breaks \in 0..MaxFaults /\ crashes \in 0..MaxCrashes

(* The database is empty, or its tables were created by hand.              *)
Init ==
    /\ phase = "down" /\ image = {} /\ pending = {} /\ current = None
    /\ schema \in {{}, {Base}}
    /\ recorded = {} /\ served = {} /\ again = {} /\ cut = FALSE
    /\ breaks = 0 /\ crashes = 0

Fault == breaks < MaxFaults /\ breaks' = breaks + 1

-----------------------------------------------------------------------------

Goto(p) == phase' = p

(* An error of the start ends the process, which is then started again.    *)
Exit == Goto("down") /\ pending' = {} /\ current' = None

(* Where the start goes on when the files fs are left.                     *)
Continue(fs) == Goto(IF fs = {} THEN "ensure" ELSE "apply")

(* The process starts from the image deployed last and reads the versions. *)
(* The loop over the rows does not ask for its error: when the connection  *)
(* breaks, the versions read so far count as all there are.                *)
Boot ==
    /\ phase = "down"
    /\ \E files \in Images, seen \in SUBSET recorded :
          /\ image' = files
          /\ \/ seen = recorded /\ UNCHANGED <<breaks, cut>>
             \/ seen # recorded /\ Fault /\ cut' = TRUE
          /\ pending' = {f \in files : Version[f] \notin seen}
    /\ Continue(pending')
    /\ UNCHANGED <<schema, recorded, current, served, again, crashes>>

(* The files are sorted by number only: equal numbers may come in either order. *)
Due(f) == f \in pending /\ \A g \in pending : Version[f] <= Version[g]

(* Mutant: "already exists" is an error like any other.                    *)
Apply_Strict ==
    /\ phase = "apply"
    /\ \E f \in pending :
          /\ Due(f)
          /\ \/ f \in Creates \cap schema /\ Exit /\ UNCHANGED <<schema, again>>
             \/ /\ f \notin Creates \cap schema
                /\ schema' = schema \cup {f} /\ again' = again \cup ({f} \cap served)
                /\ Goto("record") /\ current' = f /\ UNCHANGED pending
    /\ UNCHANGED <<image, recorded, served, cut, breaks, crashes>>

(* Mutant: every error is taken for "already exists".                      *)
Apply_AnyError ==
    /\ phase = "apply"
    /\ \E f \in pending :
          /\ Due(f)
          /\ Goto("record") /\ current' = f
          /\ \/ schema' = schema \cup {f} /\ UNCHANGED breaks
             \/ Fault /\ UNCHANGED schema
    /\ UNCHANGED <<image, recorded, pending, served, again, cut, crashes>>

(* The file runs, or ends at once because what it creates is there; both   *)
(* are recorded.  Any other error ends the start, and the file may have    *)
(* taken effect before the error.                                          *)
Apply ==
    /\ phase = "apply"
    /\ \E f \in pending :
          LET runs == f \notin Creates \cap schema
              Effect == /\ schema' = schema \cup {f}
                        /\ again' = IF runs THEN again \cup ({f} \cap served) ELSE again
          IN  /\ Due(f)
              /\ \/ /\ Effect
                    /\ Goto("record") /\ current' = f
                    /\ UNCHANGED <<pending, breaks>>
                 \/ /\ Fault
                    /\ Effect \/ UNCHANGED <<schema, again>>
                    /\ Exit
    /\ UNCHANGED <<image, recorded, served, cut, crashes>>

(* Mutant: the error of the INSERT is ignored.                             *)
Record_Unchecked ==
    /\ phase = "record"
    /\ pending' = pending \ {current} /\ current' = None
    /\ Continue(pending')
    /\ \/ recorded' = recorded \cup {Version[current]} /\ UNCHANGED breaks
       \/ Fault /\ UNCHANGED recorded
    /\ UNCHANGED <<image, schema, served, again, cut, crashes>>

Record ==
    /\ phase = "record"
    /\ \/ /\ recorded' = recorded \cup {Version[current]}
          /\ pending' = pending \ {current} /\ current' = None
          /\ Continue(pending')
          /\ UNCHANGED breaks
       \/ /\ Fault
          /\ recorded' \in {recorded, recorded \cup {Version[current]}}
          /\ Exit
    /\ UNCHANGED <<image, schema, served, again, cut, crashes>>

(* main makes sure of a column by hand, and then serves.                   *)
Ensure ==
    /\ phase = "ensure"
    /\ \/ /\ Base \in schema
          /\ Goto("serving") /\ served' = served \cup (image \cap schema)
          /\ UNCHANGED <<pending, current, breaks>>
       \/ Fault /\ Exit /\ UNCHANGED served
    /\ UNCHANGED <<image, schema, recorded, again, cut, crashes>>

(* The process is stopped, crashes or is replaced by another image.        *)
Stop ==
    /\ phase # "down" /\ crashes < MaxCrashes
    /\ crashes' = crashes + 1
    /\ Exit
    /\ UNCHANGED <<image, schema, recorded, served, again, cut, breaks>>

Start == Boot \/ Apply \/ Record \/ Ensure

Next == Start \/ Stop

Spec == Init /\ [][Next]_vars

-----------------------------------------------------------------------------
(* Properties.                                                             *)

(* When the server serves, every file of its image is in effect, whatever  *)
(* failed or was stopped on the way, but for files that share their number *)
(* with another one that is.                                               *)
OnlyDuplicatesAreSkipped ==
    phase = "serving" =>
        \A f \in image \ schema : \E g \in schema \ {f} : Version[g] = Version[f]

(* No file that was in effect when a server that knows it served runs a    *)
(* second time, which would undo what was changed since (006 sets the used *)
(* limit of its requisites to 0), unless the versions were read over a     *)
(* connection that broke.                                                  *)
ServedFilesDoNotRunAgain == again # {} => cut

(* However its starts fail, the server serves again in the end.            *)
ServesAgain == []<>(phase = "serving")
=============================================================================
