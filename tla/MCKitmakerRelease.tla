--------------------------- MODULE MCKitmakerRelease ---------------------------
(* KitmakerRelease on two packages, torch with two wheels.                 *)
EXTENDS KitmakerRelease

CONSTANTS torch, vision, t312, t313, v

MCPackages == {torch, vision}
MCWheels == {t312, t313, v}
MCPackageOf == [w \in Wheels |-> IF w = v THEN vision ELSE torch]
MCOrder == <<torch, vision>>
================================================================================
