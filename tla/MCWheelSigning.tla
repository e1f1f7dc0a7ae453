----------------------------- MODULE MCWheelSigning -----------------------------
(* Instances of WheelSigning: the sets of wheels upstream has shipped so   *)
(* far, and sets that do not belong together or are not what they seem.    *)
EXTENDS WheelSigning

MCNames == {"lib/", "a.dll", "b.pyd", "x.py", "RECORD", "RECORD.jws", "../y"}

New(name) == [of |-> name, state |-> "new", rows |-> {}]

MCData == {New("a.dll"), [of |-> "a.dll", state |-> "other", rows |-> {}],
           [of |-> "z.dll", state |-> "signed", rows |-> {}]}

File(name) == [name |-> name, dir |-> FALSE, stamp |-> 1, data |-> New(name)]
Again(name) == [File(name) EXCEPT !.data.of = "again"]
Folder(name) == [File(name) EXCEPT !.dir = TRUE, !.stamp = 2]

Large == <<Folder("lib/"), File("a.dll"), File("b.pyd"), File("x.py"), File("RECORD")>>
Small == <<File("x.py"), File("RECORD"), File("b.pyd")>>
Twice == <<File("a.dll"), Again("a.dll"), File("RECORD")>>

Tags(pythons, abis) == [pythons |-> pythons, abis |-> abis, platforms |-> {"win_arm64"}]
Exactly(minor, threaded) == Tags({Cp(minor)}, {Own(minor, threaded)})
Stable(kind) == Tags({Cp(10)}, {Abi(kind)})
Pure == Tags({Py3}, {Abi("none")})

Wheel(package, tags, archive) == [package |-> package, tags |-> tags, archive |-> archive]

Set(torch, audio, vision) ==
    {Wheel("torch", torch, Large), Wheel("torchaudio", audio, Small),
     Wheel("torchvision", vision, Small)}

Shipped ==
    {Set(Exactly(13, FALSE), Exactly(13, FALSE), Exactly(13, FALSE)),
     Set(Exactly(14, TRUE), Stable("abi3t"), Pure),
     {Wheel("torch", Exactly(12, FALSE), Twice), Wheel("torchaudio", Stable("abi3"), Small),
      Wheel("torchvision", Pure, Small)}}

Mixed ==
    {Set(torch, audio, Pure) :
        torch \in {Exactly(13, FALSE), Exactly(13, TRUE), Stable("abi3"),
                   Tags({Cp(12), Cp(13)}, {Own(13, FALSE)}),
                   [Exactly(13, FALSE) EXCEPT !.platforms = {"win_arm64", "any"}]},
        audio \in {Exactly(12, FALSE), Exactly(13, TRUE), Exactly(14, FALSE),
                   Stable("abi3"), Stable("abi3t"), Tags({Cp(14)}, {Abi("abi3")}),
                   Tags({Py(12), Py(14)}, {Abi("none")}), Tags({Cp(14)}, {Abi("none")}),
                   Tags({Cp(12), Cp(13)}, {Own(12, FALSE), Own(13, FALSE)})}}

Odd ==
    {Set(Exactly(13, FALSE), Pure, Pure) \union {Wheel("torch", Exactly(12, FALSE), Large)},
     {Wheel("torch", Exactly(13, FALSE), Large), Wheel("torchaudio", Pure, Small)}}
    \union {{Wheel("torch", Exactly(13, FALSE), archive), Wheel("torchaudio", Pure, Small),
             Wheel("torchvision", Pure, Small)} :
        archive \in {Append(Large, File("RECORD.jws")), Append(Large, File("../y")),
                     <<File("x.py"), File("RECORD")>>, Tail(Small)}}

MCWheelSets == Shipped \union Mixed \union Odd
================================================================================
