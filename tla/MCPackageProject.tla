-------------------------- MODULE MCPackageProject --------------------------
(* PackageProject on a catalogue with a range, a pinned version, a cycle   *)
(* that passes two versions of one package, and a bundled starter.         *)
EXTENDS PackageProject, TLC

a == "a"
b == "b"
c == "c"

MCNames == {a, b, c}
MCReleases == (a :> {10, 11}) @@ (b :> {10}) @@ (c :> {20})
MCStarter == b :> 10
MCDeps ==
    (a :> ((10 :> (c :> Latest)) @@ (11 :> (b :> Latest)))) @@
    (b :> (10 :> (a :> Exact(10)))) @@
    (c :> (20 :> (b :> Caret(10))))
=============================================================================
