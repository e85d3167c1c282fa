--------------------------- MODULE PilotReadiness ---------------------------
(***************************************************************************)
(* The two dry runs that declare a paid pilot ready                        *)
(* (benchmarks/execution_readiness.py): each reads a list of files, checks *)
(* every one as it reads it, and reports digests of some.  Two files are   *)
(* read twice, and an editor may replace a file between any two reads.     *)
(*                                                                         *)
(* Versions: "frozen" is what the protocol's digests name; "revised" is a  *)
(* pricing record that still passes every check but has other bytes;       *)
(* "other" fails, or would fail, a check.                                  *)
(***************************************************************************)
EXTENDS Integers, Sequences

CONSTANTS
    MaxEdits \* bound: how often a file is replaced

VARIABLES
    disk,   \* the version of each file
    edits,  \* replacements so far
    dirty,  \* a file was replaced after the dry run's first read
    kind,   \* which dry run
    seen,   \* the versions read so far, in the plan's order
    report  \* "none", "ready" or "refused"

vars == <<disk, edits, dirty, kind, seen, report>>

Names == {"protocol", "pricing", "dataset", "split", "evaluator",
          "specification", "pilot", "costs", "confirmation"}
Versions(f) == IF f = "pricing" THEN {"frozen", "revised", "other"} ELSE {"frozen", "other"}

(* Reads in program order.  "digest" compares bytes with a frozen digest,  *)
(* "valid" runs the record's own checks, "parse" only decodes the file and *)
(* trusts an earlier digest, "hash" only computes a digest for the report. *)
Read(f, how) == [file |-> f, how |-> how]

corrected_pilot_dry_run ==
    << Read("protocol", "digest"), Read("pricing", "valid"), Read("dataset", "digest"),
       Read("split", "digest"), Read("evaluator", "digest"), Read("evaluator", "valid"),
       Read("specification", "digest"), Read("split", "parse"), Read("pilot", "valid"),
       Read("costs", "valid"), Read("pricing", "hash") >>

(* The confirmation manifest names the digest of the pricing record, which *)
(* is compared with a fresh read of it.                                    *)
gemini_confirmation_dry_run ==
    << Read("protocol", "digest"), Read("pricing", "valid"), Read("dataset", "digest"),
       Read("split", "digest"), Read("split", "parse"), Read("confirmation", "valid"),
       Read("pricing", "digest") >>

Plan == IF kind = "pilot" THEN corrected_pilot_dry_run ELSE gemini_confirmation_dry_run

Accepts(how, version) ==
    CASE how = "digest" -> version = "frozen"
      [] how = "valid" -> version # "other"
      [] OTHER -> TRUE

-----------------------------------------------------------------------------
Init ==
    /\ disk \in [Names -> {"frozen", "revised", "other"}]
    /\ \A f \in Names : disk[f] \in Versions(f)
    /\ edits = 0
    /\ dirty = FALSE
    /\ kind \in {"pilot", "confirmation"}
    /\ seen = <<>>
    /\ report = "none"

ReadNext ==
    /\ report = "none" /\ Len(seen) < Len(Plan)
    /\ LET step == Plan[Len(seen) + 1]
       IN  /\ seen' = Append(seen, disk[step.file])
           /\ report' = IF Accepts(step.how, disk[step.file]) THEN "none" ELSE "refused"
    /\ UNCHANGED <<disk, edits, dirty, kind>>

Report ==
    /\ report = "none" /\ Len(seen) = Len(Plan)
    /\ report' = "ready"
    /\ UNCHANGED <<disk, edits, dirty, kind, seen>>

Edit(f) ==
    /\ report = "none" /\ edits < MaxEdits
    /\ \E v \in Versions(f) \ {disk[f]} : disk' = [disk EXCEPT ![f] = v]
    /\ edits' = edits + 1
    /\ dirty' = (seen # <<>>)
    /\ UNCHANGED <<kind, seen, report>>

Next == ReadNext \/ Report \/ \E f \in Names : Edit(f)

Spec == Init /\ [][Next]_vars

-----------------------------------------------------------------------------
TypeOK ==
    /\ \A f \in Names : disk[f] \in Versions(f)
    /\ Len(seen) <= Len(Plan)
    /\ report = "ready" => Len(seen) = Len(Plan)
    /\ report = "none" => \A i \in 1..Len(seen) : Accepts(Plan[i].how, seen[i])

(* Ready, with nobody touching the files meanwhile, means that every file  *)
(* the dry run names is acceptable now, that the tasks were checked        *)
(* against the frozen split, and that the digest reported for the pricing  *)
(* record is the digest of the record that was checked.                    *)
ReadyMeansFrozen ==
    (report = "ready" /\ ~dirty) =>
        /\ \A i \in 1..Len(Plan) : disk[Plan[i].file] # "other"
        /\ disk["split"] = "frozen"
        /\ \A i, j \in 1..Len(Plan) : Plan[i].file = Plan[j].file => seen[i] = seen[j]

(* What is read only once was as frozen, even under concurrent edits.      *)
PinnedInputsAreFrozen ==
    report = "ready" =>
        \A i \in 1..Len(Plan) :
            Plan[i].file \in {"protocol", "dataset", "specification"} => seen[i] = "frozen"
=============================================================================
