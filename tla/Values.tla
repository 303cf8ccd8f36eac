------------------------------- MODULE Values -------------------------------
(***************************************************************************)
(* The values that pass through the conversion of speech and through the    *)
(* protocol, each tagged with its Python type: the code looks at types       *)
(* before it looks at values, and TRUE is not the integer 1.                 *)
(*                                                                         *)
(* A string is the name of its text and its length in code points; a float  *)
(* is "one", "half" or "infinite".                                          *)
(***************************************************************************)
EXTENDS Integers, Sequences

Num(n)    == <<"int", n>>
Float(x)  == <<"float", x>>
Bool(b)   == <<"bool", b>>
Str(s, n) == <<"str", s, n>>
Word(s)   == Str(s, 1)        \* a keyword
None      == <<"none">>

List(s)   == <<"list", s>>     \* of JSON
Dict(f)   == <<"dict", f>>     \* of JSON
Object(f) == <<"object", f>>   \* an instance of a data class: its fields

(* JSON can escape it, UTF-8 cannot hold it. *)
LoneSurrogate == Word("loneSurrogate")

IsA(type, v) == v[1] = type
IsOne(v)  == v \in {Num(1), Float("one")}

(* A value without parts, whose tag is its type. *)
IsScalar(v) ==
    CASE IsA("int", v) -> v = Num(v[2]) /\ v[2] \in Int
      [] IsA("float", v) -> v = Float(v[2])
      [] IsA("bool", v) -> v = Bool(v[2]) /\ v[2] \in BOOLEAN
      [] IsA("str", v) -> v = Str(v[2], v[3]) /\ v[3] \in Nat
      [] OTHER -> v = None

(* An object that has the fields of the names, and no others. *)
HasFields(f, names) == DOMAIN f = names /\ f = [n \in names |-> f[n]]

(* The first of several checks that fails is the one that is reported. *)
FirstFailure(checks) ==
    IF \A k \in DOMAIN checks : checks[k] = "ok" THEN "ok"
    ELSE checks[CHOOSE k \in DOMAIN checks : checks[k] # "ok" /\ \A j \in 1 .. k - 1 : checks[j] = "ok"]
=============================================================================
