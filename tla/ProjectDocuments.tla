--------------------------- MODULE ProjectDocuments ---------------------------
(***************************************************************************)
(* The documents of a Lake project and of a package provider, as far as    *)
(* they are decoded and compared (leanbun-evidence, and the intake and     *)
(* registered packages of leanbun-managed).  A document is a record of its *)
(* fields; a package or a requirement is a function from the fields that   *)
(* are written to their values.  A digest is the value that is hashed.     *)
(***************************************************************************)
EXTENDS Naturals, Sequences, FiniteSets

CONSTANTS
    Nothing,      \* an optional value that is absent, or a refused document
    Supported,    \* versions whose major number is supported
    Revisions,    \* 40 lowercase hexadecimal digits
    Toolchains,   \* what validate_toolchain accepts
    MaxPackages   \* most packages of a document

ASSUME NothingIsNoValue == Nothing \notin Revisions \cup {"git", "path"}

Has(p, field) == field \in DOMAIN p
Field(p, field) == IF Has(p, field) THEN p[field] ELSE Nothing
NamesOf(packages) == {packages[i].name : i \in DOMAIN packages}

\* At most MaxPackages packages with names, each once.
NamesAreUnique(packages) ==
    /\ Len(packages) <= MaxPackages
    /\ \A i \in DOMAIN packages : Has(packages[i], "name")
    /\ Cardinality(NamesOf(packages)) = Len(packages)

\* The package of a name in a document without duplicates.
Entry(packages, n) == packages[CHOOSE i \in DOMAIN packages : packages[i].name = n]

-----------------------------------------------------------------------------
(* Decoding.                                                               *)

IsGit(p) == Field(p, "type") = "git" /\ Field(p, "rev") \in Revisions

GitSourceIsValid(p) == IsGit(p) /\ ~Has(p, "dir")
PathSourceIsValid(p) ==
    /\ Field(p, "type") = "path" /\ Has(p, "dir")
    /\ {"rev", "url", "subDir", "inputRev"} \cap DOMAIN p = {}
    /\ Field(p, "scope") \in {Nothing, ""}

ManifestIsValid(m) ==
    /\ m.version \in Supported
    /\ NamesAreUnique(m.packages)
    /\ \A i \in DOMAIN m.packages :
          GitSourceIsValid(m.packages[i]) \/ PathSourceIsValid(m.packages[i])

RegistryIsValid(r) ==
    /\ r.version \in Supported
    /\ NamesAreUnique(r.packages)
    /\ \A i \in DOMAIN r.packages : IsGit(r.packages[i])

OverrideIsValid(o) ==
    /\ o.version \in Supported
    /\ NamesAreUnique(o.packages)
    /\ \A i \in DOMAIN o.packages :
          /\ Field(o.packages[i], "type") = "path"
          /\ Has(o.packages[i], "dir") /\ o.packages[i].dir.absolute

\* The Lake configuration: a root name, once, and requirements.
SourceOf(q) ==
    CASE Has(q, "path") /\ {"git", "rev", "subDir"} \cap DOMAIN q = {} ->
            [kind |-> "path", directory |-> q.path]
      [] Has(q, "git") /\ ~Has(q, "path") ->
            [kind |-> "git", url |-> q.git, rev |-> Field(q, "rev"),
             subDir |-> Field(q, "subDir")]
      [] OTHER -> Nothing

VersionOf(q) ==
    IF Has(q, "version") THEN q.version
    ELSE IF Has(q, "rev") THEN <<"git", q.rev>> ELSE Nothing

Declaration(config) ==
    LET q == config.requires
        keys == {<<Field(q[i], "scope"), Field(q[i], "name")>> : i \in DOMAIN q}
    IN  IF \/ Len(config.names) # 1
           \/ \E i \in DOMAIN q : ~Has(q[i], "name") \/ SourceOf(q[i]) = Nothing
           \/ Cardinality(keys) # Len(q)
           \/ Len(q) > MaxPackages
        THEN Nothing
        ELSE [root |-> config.names[1],
              dependencies |->
                  {[scope |-> Field(q[i], "scope"), name |-> q[i].name,
                    source |-> SourceOf(q[i]), version |-> VersionOf(q[i])] : i \in DOMAIN q}]

-----------------------------------------------------------------------------
(* Comparison.                                                             *)

\* Where a directory leads to: below the allowed root, or not.
IsContained(where) == where # Nothing /\ where.inside /\ where.directory

\* match_provider_documents; Nothing if the pair is refused.
ProviderPackages(registry, override, dirs) ==
    IF /\ registry.version = override.version
       /\ NamesOf(registry.packages) = NamesOf(override.packages)
       /\ \A i \in DOMAIN override.packages : IsContained(dirs[override.packages[i].dir.at])
    THEN [n \in NamesOf(registry.packages) |->
            [revision |-> Entry(registry.packages, n).rev,
             directory |-> dirs[Entry(override.packages, n).dir.at]]]
    ELSE Nothing

\* compare_project_manifest_to_provider
Mismatches(manifest, registry) ==
    LET ours == NamesOf(manifest.packages)
        theirs == NamesOf(registry.packages)
        both == ours \cap theirs
    IN  {<<"<document>", f>> : f \in {f \in {"version", "packagesDir"} :
                                        manifest[f] # registry[f]}}
        \cup {<<n, "package">> : n \in (ours \cup theirs) \ both}
        \cup {<<n, "type">> : n \in {n \in both : Entry(manifest.packages, n).type = "path"}}
        \cup {<<n, "rev">> : n \in {n \in both :
                /\ Entry(manifest.packages, n).type = "git"
                /\ Entry(manifest.packages, n).rev # Entry(registry.packages, n).rev}}

\* classify_input; Nothing if the input is refused.  The provider is a sequence
\* of at most one pair.
Classify(manifest, override, provider) ==
    CASE manifest.packages = <<>> -> IF override = Nothing THEN "DependencyFree" ELSE Nothing
      [] manifest.packages # <<>> /\ provider = <<>> -> "Standalone"
      [] OTHER ->
            IF /\ Mismatches(manifest, provider[1].registry) = {}
               /\ override = provider[1].override
            THEN "ProviderBound" ELSE Nothing

\* resolve_path_packages; Nothing if one leads out or is no directory.
PathPackages(manifest, dirs) ==
    LET p == manifest.packages
        paths == {i \in DOMAIN p : p[i].type = "path"}
    IN  IF \A i \in paths : IsContained(dirs[p[i].dir])
        THEN [n \in {p[i].name : i \in paths} |-> dirs[Entry(p, n).dir]]
        ELSE Nothing

\* load_registered_git_closure: the manifest's packages are the provider's.
IsRegisteredClosure(manifest, packages) ==
    /\ manifest.packages # <<>>
    /\ \A i \in DOMAIN manifest.packages :
          LET p == manifest.packages[i]
          IN  p.type = "git" /\ p.name \in DOMAIN packages /\ p.rev = packages[p.name].revision
    /\ NamesOf(manifest.packages) = DOMAIN packages

\* preflight_dependencies
DependenciesAreSupported(declaration, input) ==
    LET direct == declaration.dependencies
        Only(kind) == \A d \in direct : d.source.kind = kind
    IN  \/ direct = {}
        \/ Only("path") /\ Cardinality(DOMAIN input.paths) = Cardinality(direct)
        \/ Only("git") /\ Len(input.manifest.packages) >= Cardinality(direct)

-----------------------------------------------------------------------------
(* The identity of an input (project_identity.rs).                         *)

\* A package is known by its directory, or at its revision by the provider.
PackageIsBound(input, provider, p) ==
    IF p.type = "path" THEN p.name \in DOMAIN input.paths
    ELSE provider # <<>> =>
            /\ p.name \in DOMAIN provider[1].packages
            /\ provider[1].packages[p.name].revision = p.rev

IdentityPackage(input, provider, p) ==
    IF p.type = "path"
    THEN [kind |-> "path", revision |-> Nothing, path |-> input.paths[p.name]]
    ELSE [kind |-> "git", revision |-> p.rev,
          path |-> IF provider = <<>> THEN Nothing ELSE provider[1].packages[p.name].directory]

Material(input, provider) ==
    LET bound == input.state = "ProviderBound"
    IN  [state |-> input.state, toolchain |-> input.toolchain, manifest |-> input.manifest,
         override |-> input.override,
         registry |-> IF bound THEN provider[1].registry ELSE Nothing,
         providerOverride |-> IF bound THEN provider[1].override ELSE Nothing,
         packages |-> [n \in NamesOf(input.manifest.packages) |->
                        IdentityPackage(input, provider, Entry(input.manifest.packages, n))]]

MaterialIsValid(m) ==
    LET bound == m.state = "ProviderBound"
        packages == {m.packages[n] : n \in DOMAIN m.packages}
    IN  /\ m.state = "DependencyFree" => m.override = Nothing /\ packages = {}
        /\ (Nothing \notin {m.registry, m.providerOverride, m.override}
                /\ m.override = m.providerOverride) \/ ~bound
        /\ ~bound => m.registry = Nothing /\ m.providerOverride = Nothing
        /\ \A p \in packages :
              IF p.kind = "git" THEN p.revision # Nothing /\ (bound <=> p.path # Nothing)
              ELSE ~bound /\ p.revision = Nothing /\ p.path # Nothing

\* derive_project_input_identity does not refuse the input.
HasIdentity(input, provider) ==
    /\ provider # <<>> <=> input.state = "ProviderBound"
    /\ \A n \in NamesOf(input.manifest.packages) :
          PackageIsBound(input, provider, Entry(input.manifest.packages, n))
    /\ MaterialIsValid(Material(input, provider))
=============================================================================
