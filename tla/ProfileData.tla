---------------------------- MODULE ProfileData ----------------------------
(***************************************************************************)
(* A device profile as data, and the pure functions the service applies to *)
(* it.  The client-supplied columns (name, device_type, window_width, ...) *)
(* are a function from Field to Value; a request body carries Nil for each *)
(* field the client omitted (the Go code uses nil pointers).               *)
(***************************************************************************)
CONSTANTS
    Field,      \* the client-supplied columns; "name" and "extra" are two of them
    Value,      \* what a column may hold
    Nil,        \* a nil pointer, a missing row
    Zero,       \* Zero[f]: the zero value Go gives an unset field
    Accepted    \* Accepted[f]: the values validateFields accepts for f

ASSUME DataAssumption ==
    /\ {"name", "extra"} \subseteq Field
    /\ Nil \notin Value
    /\ Zero \in [Field -> Value]
    /\ Accepted \in [Field -> SUBSET Value]
    /\ Nil \notin [Field -> Value]

Fields  == [Field -> Value]
Partial == [Field -> Value \cup {Nil}]

(* A template has every column but extra, which only a client supplies. *)
Templated == Field \ {"extra"}
Body      == [Templated -> Value]

(* Validate looks at every column but extra; one rejected value is enough. *)
Validate(fields) == \A f \in Templated : fields[f] \in Accepted[f]

(* applyPatch: the fields the client sent replace those of the profile. *)
applyPatch(base, in) == [f \in Field |-> IF in[f] = Nil THEN base[f] ELSE in[f]]

(* Create starts from Go zero values: an omitted field is not an error by  *)
(* itself, Validate decides.                                               *)
InputUnfilled(in) == in
FromInput(in)     == applyPatch(Zero, in)

(* applyTemplate: the template supplies the fields the client omitted, and *)
(* never one the client sent, even when what was sent is not valid.        *)
TemplateOverrides(in, t) ==
    [f \in Field |-> IF f \in Templated THEN t[f] ELSE in[f]]
applyTemplate(in, t) ==
    [f \in Field |-> IF in[f] = Nil /\ f \in Templated THEN t[f] ELSE in[f]]
=============================================================================
