--------------------------- MODULE MCManagedIntake ---------------------------
(***************************************************************************)
(* A project with one package, from the provider or from a directory of    *)
(* its own, and a provider with one package.                               *)
(***************************************************************************)
EXTENDS ManagedIntake

Manifest(packages) == [version |-> "1.2", packagesDir |-> "p", packages |-> packages]
GitPackage(revision) == [name |-> "mathlib", type |-> "git", rev |-> revision]
Override(place) ==
    [version |-> "1.2",
     packages |-> <<[name |-> "mathlib", type |-> "path",
                     dir |-> [absolute |-> TRUE, at |-> place]]>>]
Config(requires) == [names |-> <<"root">>, requires |-> requires]
Where(inside) == [inside |-> inside, directory |-> TRUE]

Local == Manifest(<<[name |-> "lib", type |-> "path", dir |-> "lib"]>>)
LocalRequire == <<[name |-> "lib", path |-> "lib"]>>
GitRequire == <<[name |-> "mathlib", git |-> "u", rev |-> "r1"]>>

MCTexts ==
    [toolchain |-> {"v4", "v5"},
     manifest |-> {Local, Manifest(<<GitPackage("r1")>>)},
     override |-> {Nothing, Override("mathlib")},
     config |-> {Config(LocalRequire), Config(GitRequire)},
     links |-> {[lib |-> Where(TRUE), mathlib |-> Where(TRUE)],
                [lib |-> Where(FALSE), mathlib |-> Where(TRUE)]},
     registry |-> {Manifest(<<GitPackage("r1")>>), Manifest(<<GitPackage("r2")>>)},
     providerOverride |-> {Override("mathlib"), Nothing}]

MCStart(manifest, requires, override, revision) ==
    [toolchain |-> "v4", manifest |-> manifest, override |-> override,
     config |-> Config(requires),
     links |-> [lib |-> Where(TRUE), mathlib |-> Where(TRUE)],
     registry |-> Manifest(<<GitPackage(revision)>>),
     providerOverride |-> Override("mathlib")]

MCStarts ==
    {MCStart(Local, LocalRequire, Nothing, "r1"),
     MCStart(Manifest(<<GitPackage("r1")>>), GitRequire, Override("mathlib"), "r1"),
     MCStart(Manifest(<<GitPackage("r1")>>), GitRequire, Override("mathlib"), "r2")}
=============================================================================
