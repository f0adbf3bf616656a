--------------------------- MODULE DriverRegistry ---------------------------
(***************************************************************************)
(* Which driver class speaks to a printer: register_for_version_range and  *)
(* register_for_model fill a DriverRegistry, resolve_driver_class looks a  *)
(* printer up in it by its model and by the firmware version it reported   *)
(* when it was registered.  A version is the tuple of numbers that         *)
(* _parse_version finds at the start of a string, or Garbled where it      *)
(* finds none and raises ValueError ("v0.12.0" is such a string).          *)
(***************************************************************************)
EXTENDS Integers, Sequences

CONSTANTS
    Models,     \* printers.model
    NoModel,    \* model is None
    Drivers,    \* driver classes to register
    Base,       \* BaseKlipperDriver
    NoDriver,   \* not a driver class
    Versions,   \* tuples of numbers that may be parsed
    Garbled,    \* a version that cannot be parsed
    NoVersion,  \* firmware_version is None
    Any,        \* the ranges "" and "*"
    Ranges,     \* ranges that may be registered
    MaxRanges   \* bound: registrations for a version range

Operators == {">=", "<=", ">", "<", "=="}

\* One part of a range between commas; "malformed" is what _CONSTRAINT_RE does
\* not match.
Constraint == [op : Operators \cup {"malformed"}, bound : Versions]

ASSUME DriversAssumption ==
    /\ Versions \subseteq Seq(Nat)
    /\ Ranges \subseteq {Any} \cup Seq(Constraint)
    /\ NoDriver \notin Drivers /\ NoDriver # Base
    /\ NoModel \notin Models
    /\ Garbled \notin Versions /\ NoVersion \notin Versions \cup {Garbled}
    /\ MaxRanges \in Nat

Firmwares == Versions \cup {Garbled, NoVersion}

ValueError == "ValueError"

VARIABLES
    ranges,    \* _version_range_registrations
    byModel    \* _model_registrations

vars == <<ranges, byModel>>

Registration == [model : Models, range : Ranges, driver : Drivers]

TypeOK ==
    /\ ranges \in Seq(Registration)
    /\ byModel \in [Models -> Drivers \cup {NoDriver}]

Init ==
    /\ ranges = <<>>
    /\ byModel = [m \in Models |-> NoDriver]

-----------------------------------------------------------------------------
(* Versions *)

\* Mutant of Part: tuples are compared as they are, a shorter one first.
PartUnpadded(v, i) == IF i <= Len(v) THEN v[i] ELSE -1

\* The i-th number of a version, padded with zeros.
Part(v, i) == IF i <= Len(v) THEN v[i] ELSE 0

Longer(v, w) == IF Len(v) >= Len(w) THEN Len(v) ELSE Len(w)

\* Mutant of Before: some number is smaller.
BeforeSomewhere(v, w) == \E i \in 1 .. Longer(v, w) : Part(v, i) < Part(w, i)

\* The order of the padded tuples.
Before(v, w) ==
    \E i \in 1 .. Longer(v, w) :
        /\ Part(v, i) < Part(w, i)
        /\ \A j \in 1 .. i - 1 : Part(v, j) = Part(w, j)

\* _compare_versions
Compare(v, w) == IF Before(v, w) THEN -1 ELSE IF Before(w, v) THEN 1 ELSE 0

\* _OPERATORS
Admits(op, cmp) ==
    \/ op = ">=" /\ cmp >= 0
    \/ op = "<=" /\ cmp <= 0
    \/ op = ">" /\ cmp > 0
    \/ op = "<" /\ cmp < 0
    \/ op = "==" /\ cmp = 0

Excludes(constraint, v) ==
    /\ constraint.op # "malformed"
    /\ ~Admits(constraint.op, Compare(v, constraint.bound))

\* Constraints are read from the left, up to the first that excludes the version.
IsMisread(range, v) ==
    \E i \in DOMAIN range :
        /\ range[i].op = "malformed"
        /\ \A j \in 1 .. i - 1 : ~Excludes(range[j], v)

\* version_in_range: "yes", "no", or ValueError.
InRange(version, range) ==
    CASE range = Any -> "yes"
      [] range # Any /\ version = Garbled -> ValueError
      [] range # Any /\ version # Garbled /\ IsMisread(range, version) -> ValueError
      [] OTHER -> IF \E i \in DOMAIN range : Excludes(range[i], version)
                  THEN "no" ELSE "yes"

-----------------------------------------------------------------------------
(* resolve_driver_class *)

\* Mutant of Concerns: any model's registrations are looked at.
ConcernsAnyModel(i, model, version) == InRange(version, ranges[i].range) # "no"

\* The i-th registration ends the loop, with its driver or with a ValueError.
Concerns(i, model, version) ==
    /\ ranges[i].model = model
    /\ InRange(version, ranges[i].range) # "no"

\* Tier (a), the version ranges: the first that matches.
ByRange(model, version) ==
    LET hits == {i \in DOMAIN ranges : Concerns(i, model, version)}
        first == CHOOSE i \in hits : \A j \in hits : i <= j
    IN CASE model = NoModel \/ version = NoVersion \/ hits = {} -> NoDriver
         [] OTHER -> IF InRange(version, ranges[first].range) = ValueError
                     THEN ValueError ELSE ranges[first].driver

\* Tier (b), the model, and tier (c), the base driver.
Resolve(model, version) ==
    CASE ByRange(model, version) # NoDriver -> ByRange(model, version)
      [] ByRange(model, version) = NoDriver /\ model \in Models
            /\ byModel[model] # NoDriver -> byModel[model]
      [] OTHER -> Base

-----------------------------------------------------------------------------
(* Registrations *)

\* Mutant of RegisterForVersionRange: the latest registration comes first.
RegisterForVersionRangeFirst(model, range, driver) ==
    /\ Len(ranges) < MaxRanges
    /\ ranges' = <<[model |-> model, range |-> range, driver |-> driver]>> \o ranges
    /\ UNCHANGED byModel

RegisterForVersionRange(model, range, driver) ==
    /\ Len(ranges) < MaxRanges
    /\ ranges' = Append(ranges, [model |-> model, range |-> range, driver |-> driver])
    /\ UNCHANGED byModel

\* A second driver for the same model is refused with a ValueError.
RegisterForModel(model, driver) ==
    /\ byModel[model] = NoDriver
    /\ byModel' = [byModel EXCEPT ![model] = driver]
    /\ UNCHANGED ranges

Next ==
    \E m \in Models, d \in Drivers :
        \/ \E r \in Ranges : RegisterForVersionRange(m, r, d)
        \/ RegisterForModel(m, d)

Spec == Init /\ [][Next]_vars

-----------------------------------------------------------------------------
(* Properties *)

\* What a range has decided for a printer - a driver, or the ValueError that
\* ends the heartbeat, the dispatch or the request that asks - no later
\* registration changes.
DecidedStays ==
    [][\A m \in Models, f \in Firmwares :
        ByRange(m, f) # NoDriver => ByRange(m, f)' = ByRange(m, f)]_vars

\* 1.2 and 1.2.0 are the same version: they differ by zeros at the end only.
SameVersion(v, w) ==
    /\ \A i \in DOMAIN v \cap DOMAIN w : v[i] = w[i]
    /\ \A i \in DOMAIN v \ DOMAIN w : v[i] = 0
    /\ \A i \in DOMAIN w \ DOMAIN v : w[i] = 0

\* Printers of a model that report the same version get the same driver.
SameVersionsResolveAlike ==
    \A m \in Models, v, w \in Versions :
        SameVersion(v, w) => Resolve(m, v) = Resolve(m, w)

\* A firmware between two that a registered range admits is admitted by it: an
\* upgrade in small steps does not change drivers back and forth.
RangesHaveNoGaps ==
    \A i \in DOMAIN ranges : \A v, w, x \in Versions :
        (/\ Before(v, w) /\ Before(w, x)
         /\ InRange(v, ranges[i].range) = "yes" /\ InRange(x, ranges[i].range) = "yes")
            => InRange(w, ranges[i].range) = "yes"

\* A printer gets a driver that was registered for its model, or the base
\* driver; a ValueError comes only of a malformed range of its own model, or of
\* a version that was not parsed for the sake of such a range.
OthersDoNotMatter ==
    \A m \in Models \cup {NoModel}, f \in Firmwares :
        LET own == {i \in DOMAIN ranges : ranges[i].model = m}
        IN \/ Resolve(m, f) = Base
           \/ m \in Models /\ Resolve(m, f) = byModel[m]
           \/ \E i \in own : Resolve(m, f) = ranges[i].driver
           \/ /\ Resolve(m, f) = ValueError /\ f # NoVersion
              /\ \E i \in own :
                    /\ ranges[i].range # Any
                    /\ \/ f = Garbled
                       \/ \E c \in DOMAIN ranges[i].range :
                            ranges[i].range[c].op = "malformed"
=============================================================================
