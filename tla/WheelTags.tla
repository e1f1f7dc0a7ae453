------------------------------- MODULE WheelTags --------------------------------
(***************************************************************************)
(* scripts/publish/wheel_tags.py: on which CPython 3 a wheel installs.     *)
(*                                                                         *)
(* The tags of a filename are the sets its last three fields expand to:    *)
(* records [pythons, abis, platforms].  A python tag is [lang, minor] with *)
(* lang "cp" for cp3<minor>, "py" for py3<minor> and "py3" for py3 (of     *)
(* minor 0); an abi is [kind, minor] with kind "own" for cp3<minor>,       *)
(* "own-t" for cp3<minor>t, and "none", "abi3" or "abi3t" (of minor 0).    *)
(*                                                                         *)
(* An operator named ...Mutant is a plausible bug of the definition that   *)
(* follows it; no specification uses it.                                   *)
(***************************************************************************)
EXTENDS Integers

Cp(minor) == [lang |-> "cp", minor |-> minor]
Py(minor) == [lang |-> "py", minor |-> minor]
Py3 == [lang |-> "py3", minor |-> 0]

Own(minor, threaded) == [kind |-> IF threaded THEN "own-t" ELSE "own", minor |-> minor]
Abi(kind) == [kind |-> kind, minor |-> 0]

Tag(python, abi, platform) == [python |-> python, abi |-> abi, platform |-> platform]

TagsOf(name) ==
    {Tag(p, a, x) : p \in name.pythons, a \in name.abis, x \in name.platforms}

(* An interpreter is a record [minor, threaded, platform].                 *)
SupportedTagsMutant(i) ==
    {Tag(Cp(i.minor), Own(i.minor, i.threaded), i.platform)}
    \union {Tag(Cp(m), Abi("abi3"), i.platform) : m \in 2..i.minor}
    \union {Tag(Cp(i.minor), Abi("none"), x) : x \in {i.platform, "any"}}
    \union {Tag(py, Abi("none"), x) :
               py \in {Py3} \union {Py(m) : m \in 0..i.minor}, x \in {i.platform, "any"}}

SupportedTags(i) ==
    {Tag(Cp(i.minor), Own(i.minor, i.threaded), i.platform)}
    \union {Tag(Cp(m), Abi(IF i.threaded THEN "abi3t" ELSE "abi3"), i.platform) :
               m \in 2..i.minor}
    \union {Tag(Cp(i.minor), Abi("none"), x) : x \in {i.platform, "any"}}
    \union {Tag(py, Abi("none"), x) :
               py \in {Py3} \union {Py(m) : m \in 0..i.minor}, x \in {i.platform, "any"}}

Installs(name, i) == TagsOf(name) \cap SupportedTags(i) # {}

(* The one interpreter a wheel is built for; none when it is not for one.  *)
InterpretersOf(name) ==
    {[minor |-> t.python.minor, threaded |-> t.abi.kind = "own-t", platform |-> t.platform] :
        t \in {t \in TagsOf(name) : /\ TagsOf(name) = {t}
                                    /\ t.python.lang = "cp"
                                    /\ t.abi.kind \in {"own", "own-t"}
                                    /\ t.abi.minor = t.python.minor}}
================================================================================
