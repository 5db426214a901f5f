------------------------------ MODULE RuleEngine ------------------------------
(***************************************************************************)
(* internal/rules/rules.go.  An engine is the value [list, cap, byID]:     *)
(* list and cap are the slice e.rules and the capacity of its array, byID  *)
(* the index by rule ID.  byID holds pointers: one either points at a slot *)
(* of the current array, or into an array the engine has left behind, and  *)
(* then what it points at is a copy nothing else refers to (no two IDs     *)
(* ever share a slot).  Every operation holds e.mu throughout, so each is  *)
(* an operator from an engine to the engines it may leave; more than one   *)
(* only because sort.Slice may order rules that tie either way.            *)
(*                                                                         *)
(* Of a rule, name, description, severity, action, phase and tags go with  *)
(* its ID.  Strings are members of small sets: what a transform makes of a *)
(* value, and which values a text operator accepts, are tables.            *)
(***************************************************************************)
EXTENDS Subsequence, SequencesExt

CONSTANTS RuleIDs,      \* numbers, ordered like the ID strings
          Priorities,
          Conditions,   \* records [field, operator, value, transform]; a field
                        \*   name is split at its first dot
          Requests,     \* the FieldValues: category -> value, or, for headers,
                        \*   query, form and cookies, name -> value
          Transforms,   \* transform -> (value -> value)
          Accepts,      \* text operator -> pairs (field value, rule value)
          Elements,     \* rule value -> its comma-separated parts
          Fold,         \* string -> its lower case
          BadPatterns,  \* rule values regexp.Compile refuses
          DryRun

ASSUME RuleAssumption ==
    /\ RuleIDs \subseteq Nat /\ Priorities \subseteq Nat
    /\ DryRun \in BOOLEAN

RuleSet == [id : RuleIDs, priority : Priorities, enabled : BOOLEAN,
            cond : Conditions]

-----------------------------------------------------------------------------
(* Evaluation *)

Keyed == {"headers", "query", "form", "cookies"}

\* extractField: "" for a name without a dot, an unknown category or a missing key;
\* a header is also found under its name in other case (no request has two names
\* that differ in case only: net/http canonicalises them)
extractField(field, request) ==
    IF Len(field) < 2 \/ field[1] \notin DOMAIN request THEN ""
    ELSE IF field[1] \notin Keyed THEN request[field[1]]
    ELSE LET values == request[field[1]]
             same(k) == \/ k = field[2]
                        \/ field[1] = "headers" /\ Fold[k] = Fold[field[2]]
         IN  IF \E k \in DOMAIN values : same(k)
             THEN values[CHOOSE k \in DOMAIN values : same(k)] ELSE ""

\* applyTransforms: in the order listed, unknown names skipped
applyTransforms(value, transforms) ==
    FoldLeft(LAMBDA v, t : IF t \in DOMAIN Transforms THEN Transforms[t][v] ELSE v,
             value, transforms)

IsRegex(op) == op \in {"regex", "regex_match"}

\* applyOperator; a pattern that does not compile is an error, which Inspect logs
\* and passes over.  regex_match, which AddRule compiles, is no operator here
applyOperator(op, value, ruleValue) ==
    CASE op = "equals" -> value = ruleValue
      [] op = "geo_match" -> Fold[value] = Fold[ruleValue]
      [] op = "regex" -> ruleValue \notin BadPatterns /\ <<value, ruleValue>> \in Accepts[op]
      [] op = "exists" -> TRUE
      [] op = "in" -> value \in Elements[ruleValue]
      [] op = "not_in" -> value \notin Elements[ruleValue]
      [] op \in {"contains", "prefix", "suffix", "ip_match", "gt", "lt"} ->
             <<value, ruleValue>> \in Accepts[op]
      [] OTHER -> FALSE

\* evaluateRule: an empty value never matches, whatever the operator
evaluateRule(r, request) ==
    LET v == extractField(r.cond.field, request)
        t == IF v = "" THEN "" ELSE applyTransforms(v, r.cond.transform)
    IN  t # "" /\ applyOperator(r.cond.operator, t, r.cond.value)

Allow == 0   \* no rule decides

\* Inspect: the ID of the first enabled rule that matches, in the order of the list;
\* an evaluation error counts as no match, and a dry run decides nothing
InspectRules(list, request) ==
    LET hits == {i \in DOMAIN list : list[i].enabled /\ evaluateRule(list[i], request)}
    IN  IF DryRun \/ hits = {} THEN Allow
        ELSE list[CHOOSE i \in hits : \A j \in hits : i <= j].id

-----------------------------------------------------------------------------
(* The list and its index *)

NoRule == [id |-> 0]
Slot(i) == [slot |-> i, copy |-> NoRule]
Copy(r) == [slot |-> 0, copy |-> r]

Before(r, s) == \/ r.priority < s.priority
                \/ r.priority = s.priority /\ r.id <= s.id

\* sortRules: what the list may be afterwards; the pointers of byID stay where they are
sortRules(list) ==
    {t \in {[i \in DOMAIN list |-> list[p[i]]] : p \in Bijection(DOMAIN list, DOMAIN list)} :
        \A i, j \in DOMAIN t : i < j => Before(t[i], t[j])}

\* the index once list has been given a new array
LeaveArray(e) ==
    [id \in DOMAIN e.byID |->
        IF e.byID[id].slot = 0 THEN e.byID[id] ELSE Copy(e.list[e.byID[id].slot])]

NewEngine == [list |-> <<>>, cap |-> 0, byID |-> << >>]

\* GetRule: what byID[id] points at
GetRule(e, id) == IF e.byID[id].slot = 0 THEN e.byID[id].copy ELSE e.list[e.byID[id].slot]

IDsOf(rs) == {rs[i].id : i \in DOMAIN rs}

\* the last rule of a list with the ID: where a loop over the list leaves its index
LastAt(rs, id) == CHOOSE i \in DOMAIN rs :
                      /\ rs[i].id = id
                      /\ \A j \in DOMAIN rs : rs[j].id = id => j <= i

\* LoadRules, and AtomicSwap, which loads into a new engine and takes over its fields
LoadRules(rs) ==
    {[list |-> t, cap |-> Len(rs),
      byID |-> [id \in IDsOf(rs) |-> Slot(LastAt(rs, id))]]
     : t \in sortRules(rs)}

Invalid(r) == IsRegex(r.cond.operator) /\ r.cond.value \in BadPatterns

AddRule(e, r) ==
    IF r.id \in DOMAIN e.byID \/ Invalid(r) THEN {e}
    ELSE LET full == Len(e.list) = e.cap
         IN  {[list |-> t,
               cap |-> IF ~full THEN e.cap ELSE IF e.cap = 0 THEN 1 ELSE 2 * e.cap,
               byID |-> [id \in DOMAIN e.byID \cup {r.id} |->
                            IF id = r.id THEN Slot(Len(e.list) + 1)
                            ELSE IF full THEN LeaveArray(e)[id] ELSE e.byID[id]]]
              : t \in sortRules(Append(e.list, r))}

\* Mutant: the list is not sorted again.
AssignUnsorted(e, id, r) ==
    {IF e.byID[id].slot = 0 THEN [e EXCEPT !.byID[id] = Copy(r)]
                            ELSE [e EXCEPT !.list[e.byID[id].slot] = r]}

\* *rule = r, wherever byID[id] points, and a sort
Assign(e, id, r) ==
    IF e.byID[id].slot = 0
    THEN {[e EXCEPT !.list = t, !.byID[id] = Copy(r)] : t \in sortRules(e.list)}
    ELSE {[e EXCEPT !.list = t] : t \in sortRules([e.list EXCEPT ![e.byID[id].slot] = r])}

UpdateRule(e, id, r) == IF id \in DOMAIN e.byID THEN Assign(e, id, r) ELSE {e}

\* Mutant: only the first rule with the ID leaves the list.
DeleteRuleOnce(e, id) ==
    IF id \notin DOMAIN e.byID THEN e
    ELSE [list |-> IF \E i \in DOMAIN e.list : e.list[i].id = id
                   THEN RemoveAt(e.list, CHOOSE i \in DOMAIN e.list : e.list[i].id = id) ELSE e.list,
          cap |-> Len(e.list),
          byID |-> [i \in DOMAIN e.byID \ {id} |-> LeaveArray(e)[i]]]

DeleteRule(e, id) ==
    IF id \notin DOMAIN e.byID THEN e
    ELSE [list |-> Kept(e.list, {i \in DOMAIN e.list : e.list[i].id # id}), cap |-> Len(e.list),
          byID |-> [i \in DOMAIN e.byID \ {id} |-> LeaveArray(e)[i]]]

\* Mutant: the priority is counted from one.
ReorderRuleShifted(e, id, priority) ==
    IF id \in DOMAIN e.byID
    THEN Assign(e, id, [GetRule(e, id) EXCEPT !.priority = priority + 1]) ELSE {e}

ReorderRule(e, id, priority) ==
    IF id \in DOMAIN e.byID
    THEN Assign(e, id, [GetRule(e, id) EXCEPT !.priority = priority]) ELSE {e}
=============================================================================
