------------------------------- MODULE Config -------------------------------
(***************************************************************************)
(* The configuration of muxa-core, as load_figment and Sections read it:   *)
(* one file, the app's own environment variables over it, and, under both, *)
(* the unprefixed variables a plugin falls back on.                        *)
(*                                                                         *)
(* A setting is a section and a key, <<"web", "port">>; a top-level key    *)
(* has the section "". A machine is what a process finds when it starts:   *)
(*   files     the parsed TOML files by their paths                        *)
(*   vars      the prefixed variables, <<prefix, section, key>>            *)
(*   platform  the unprefixed variables by their names                     *)
(***************************************************************************)
EXTENDS Sequences

CONSTANTS
  App,    \* the prefix that the app's name gives its variables
  Bad,    \* a value that the type of its key does not accept
  None    \* a key that is not set and has no default; no answer, no copy

\* What upper does not set, lower does: @@, spelled out for the proofs.
Over(upper, lower) ==
  [k \in DOMAIN upper \union DOMAIN lower |-> IF k \in DOMAIN upper THEN upper[k] ELSE lower[k]]

DefaultPath == "config.toml"
ConfigVar == <<"", "config">>

-----------------------------------------------------------------------------
\* load_figment: the file that the app's CONFIG variable names, or the default.
PickedPath(vars) ==
  IF <<App>> \o ConfigVar \in DOMAIN vars THEN vars[<<App>> \o ConfigVar]
                                          ELSE DefaultPath

\* A missing file is an empty one.
PickedFile(machine) ==
  LET path == PickedPath(machine.vars)
  IN  IF path \in DOMAIN machine.files THEN machine.files[path]
                                       ELSE [parses |-> TRUE, tree |-> <<>>]

\* The variables with the app's prefix, without the one that picks the file.
Own(vars) ==
  LET names == {v \in DOMAIN vars : v[1] = App} \ {<<App>> \o ConfigVar}
  IN  [setting \in {Tail(v) : v \in names} |-> vars[<<App>> \o setting]]

\* Mutant: the file is merged over the variables.
FileFirst(vars, file) == Over(file.tree, Own(vars))
Merged(vars, file) == Over(Own(vars), file.tree)

\* A file that does not parse is an error in whatever is asked of the figment.
Loaded(machine) ==
  LET file == PickedFile(machine)
  IN  [parses |-> file.parses, tree |-> Merged(machine.vars, file)]

-----------------------------------------------------------------------------
ReadNonEmpty(var, platform) == var \in DOMAIN platform /\ platform[var] # ""

\* FallbackValue::read of each of a section's fallbacks, a function from keys to
\* variables.
FallbackTree(section, fallbacks, platform) ==
  LET set == {k \in DOMAIN fallbacks : ReadNonEmpty(fallbacks[k], platform)}
  IN  [setting \in {section} \X set |-> platform[fallbacks[setting[2]]]]

\* join only adds what is not there.
Join(tree, fallback) == Over(tree, fallback)

\* extract_section: any error in finding the section means the defaults, one in
\* a value found is an error. Keys the type does not know are ignored.
Refused == [ok |-> FALSE]
Read(cfg) == [ok |-> TRUE, cfg |-> cfg]

Extract(given, defaults) ==
  IF \E k \in DOMAIN given : given[k] = Bad THEN Refused ELSE Read(Over(given, defaults))

ExtractSection(figment, section, defaults) ==
  LET present == figment.parses /\ \E s \in DOMAIN figment.tree : s[1] = section
      known == {k \in DOMAIN defaults : <<section, k>> \in DOMAIN figment.tree}
      given == [k \in known |-> figment.tree[<<section, k>>]]
  IN  IF present THEN Extract(given, defaults) ELSE Read(defaults)

\* Sections::get_or_env, and get where there are no fallbacks. A plugin without
\* a section has nothing to read.
GetOrEnv(machine, section, fallbacks, defaults) ==
  LET figment == Loaded(machine)
      fallback == FallbackTree(section, fallbacks, machine.platform)
  IN  IF section = "" THEN Read(defaults)
      ELSE ExtractSection([figment EXCEPT !.tree = Join(@, fallback)], section, defaults)

NoFallbacks == <<>>

-----------------------------------------------------------------------------
\* RunMode::from_figment: the top-level `env` if it names a mode, and otherwise
\* the profile of the build.
ModeNamed == Over([name \in {"development", "dev", "debug"} |-> "development"],
                  [name \in {"production", "prod", "release"} |-> "production"])

Mode(machine, profile) ==
  LET figment == Loaded(machine)
      env == <<"", "env">>
  IN  IF figment.parses /\ env \in DOMAIN figment.tree /\ figment.tree[env] \in DOMAIN ModeNamed
      THEN ModeNamed[figment.tree[env]]
      ELSE profile
=============================================================================
