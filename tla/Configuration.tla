---------------------------- MODULE Configuration ----------------------------
(***************************************************************************)
(* The configuration files of the plugin: seeded and repaired against the  *)
(* bundled resources (seed_defaults of config.rs, sync.rs), read at the    *)
(* start and by /trchat reload, with what each failure keeps in force.     *)
(*                                                                         *)
(* A file is a function from paths to values: a value is "map", a list of  *)
(* Lists, or a scalar, and the value at the root, the empty path, says     *)
(* whether the file is a mapping at all.  Every text that is not a mapping *)
(* is "bare", an empty file included; "broken" is what does not parse.     *)
(***************************************************************************)
EXTENDS Integers, Sequences, SequencesExt

CONSTANTS Bundled,     \* the resources of each version: [file -> tree]
          Schema,      \* channels/Schema.yml
          Lists,       \* the values that are lists
          Unreadable,  \* scalars that no setting can hold
          Edits,       \* what operators write: pairs <<file, tree>>
          MaxEdits, MaxKills   \* bounds of the model

VARIABLES version,     \* the version installed, an index of Bundled
          disk,        \* the files of the data folder
          running,     \* the sections in force
          loaded,      \* the plugin is loaded
          report,      \* what the last step reported, if it was a load or a reload
          written,     \* what the operator last wrote in each file
          edits, kills

configVars == <<version, disk, running, loaded, report, written, edits, kills>>

Reconciled == {"settings", "datasource", "filter", "Normal", "Custom"}
SeededOnly == {"function", "special", "lang"}
Files == Reconciled \cup SeededOnly

\* A tree: below every key that is there stands a mapping.
IsTree(tree) ==
  /\ tree = [p \in DOMAIN tree |-> tree[p]] /\ DOMAIN tree \subseteq Seq(STRING) /\ <<>> \in DOMAIN tree
  /\ \A p \in DOMAIN tree \ {<<>>} : Front(p) \in DOMAIN tree /\ tree[Front(p)] = "map"

ASSUME ConfigAssumption ==
  /\ 1 \in DOMAIN Bundled
  /\ \A v \in DOMAIN Bundled, f \in Files \ {"Custom"} : IsTree(Bundled[v][f]) /\ Bundled[v][f][<<>>] = "map"
  /\ IsTree(Schema) /\ Schema[<<>>] = "map" /\ "map" \notin Lists
  /\ \A e \in Edits : e[1] \in Files /\ IsTree(e[2])

Bare(kind) == [p \in {<<>>} |-> kind]
Missing == Bare("missing")
Root(tree) == tree[<<>>]
IsScalar(value) == value # "map" /\ value \notin Lists

DefaultOf(file) == IF file = "Custom" THEN Schema ELSE Bundled[version][file]
SchemaOf(file)  == IF file \in {"Normal", "Custom"} THEN Schema ELSE DefaultOf(file)

\* Mutant: the operator's value is kept whatever stands there in the resource.
ReconcileAnyKind(default, schema, user) ==
  [p \in DOMAIN default |-> IF p \in DOMAIN user THEN user[p] ELSE default[p]]

\* Mutant: a list is the one of the resource.
ReconcileBundledLists(default, schema, user) ==
  LET Open == {p \in DOMAIN default : IsScalar(default[p]) /\ p \in DOMAIN user}
      Kept == {p \in DOMAIN user : \E q \in Open : IsPrefix(q, p)}
  IN  [p \in DOMAIN default \cup Kept |-> IF p \in Kept THEN user[p] ELSE default[p]]

\* Mutant: the keys within a mapping of the operator are left alone.
ReconcileShallow(default, schema, user) ==
  [p \in DOMAIN user \cup {q \in DOMAIN default : Len(q) < 2 \/ Front(q) \notin DOMAIN user} |->
     IF p \in DOMAIN user THEN user[p] ELSE default[p]]

(***************************************************************************)
(* reconcile_map: every bundled key, and those of the schema that the      *)
(* operator uses; a list keeps a list, a scalar whatever the operator put  *)
(* there, a mapping only a mapping; the rest is dropped.                   *)
(***************************************************************************)
Reconcile(default, schema, user) ==
  LET Used == {r \in DOMAIN schema \cap DOMAIN user :
                 r \notin DOMAIN default /\ Front(r) \in DOMAIN default /\ default[Front(r)] = "map"}
      Declared == DOMAIN default \cup {p \in DOMAIN schema : \E r \in Used : IsPrefix(r, p)}
      Value(p) == IF p \in DOMAIN default THEN default[p] ELSE schema[p]
      Kept == {p \in DOMAIN user : \E q \in Declared \cap DOMAIN user :
                                     IsScalar(Value(q)) /\ IsPrefix(q, p)}
      KeptList(p) == p \in DOMAIN user /\ Value(p) \in Lists /\ user[p] \in Lists
  IN  [p \in Declared \cup Kept |-> IF p \in Kept \/ KeptList(p) THEN user[p] ELSE Value(p)]

\* seed_defaults for one file: what synchronize or write_default leaves.
Repaired(file) ==
  LET there == IF disk[file] = Missing /\ file # "Custom" THEN DefaultOf(file) ELSE disk[file]
  IN  IF file \in Reconciled /\ Root(there) = "map"
      THEN Reconcile(DefaultOf(file), SchemaOf(file), there) ELSE there

AllRepaired == [f \in Files |-> Repaired(f)]

(******************************** Sections *********************************)
Parses(tree) == Root(tree) \notin {"missing", "broken"}

\* parse_table and merge_folder_overrides: the texts of the file over the bundled.
TextsOf(tree) == [p \in {q \in DOMAIN tree : /\ Len(q) = 1 \/ (Len(q) = 2 /\ q[1] = "Placeholder-Translations")
                                            /\ IsScalar(tree[q])} |-> tree[p]]
\* Mutant: the texts of the file alone.
TableOfFile(tree) == TextsOf(tree)

Table(tree) == LET own == TextsOf(tree)  bundled == TextsOf(Bundled[version]["lang"])
               IN  [p \in DOMAIN own \cup DOMAIN bundled |->
                      IF p \in DOMAIN own THEN own[p] ELSE bundled[p]]

\* What a file that parses puts in force; a bare one, the defaults of the types.
Says(file, tree) == IF file = "lang" THEN Table(tree) ELSE tree

ReadsSettings(files) ==
  /\ Root(files["settings"]) = "map"
  /\ \A p \in DOMAIN files["settings"] : files["settings"][p] \notin Unreadable

\* read_channels: a channel that does not parse is skipped; then validate_channels.
HasOption(tree, option) == <<"Options", option>> \in DOMAIN tree /\ tree[<<"Options", option>>] = "true"
ReadsChannels(files) ==
  LET channels == {c \in {"Normal", "Custom"} : Parses(files[c])}
      joined   == {c \in channels : HasOption(files[c], "Auto-Join")}
  IN  /\ "Normal" \in channels
      /\ joined # {"Normal", "Custom"}
      /\ \A c \in joined : ~HasOption(files[c], "Private")

\* The sections a reload names when they fail, and those it does not.
Named  == {"function", "filter"}
\* Mutant: a language file that fails is not named.
FailedSections(files) == {f \in Named : ~Parses(files[f])}

Failed(files) == {f \in Named : ~Parses(files[f])} \cup
                 (IF Root(files["lang"]) = "map" THEN {} ELSE {"lang"})

Loads(file, files) == Parses(files[file]) /\ ~(file = "lang" /\ Root(files["lang"]) # "map")

(********************************** Steps **********************************)
NoReport == [kind |-> "none", failed |-> {}]

ConfigInit ==
  /\ version = 1 /\ loaded = FALSE /\ report = NoReport
  /\ disk = [f \in Files |-> Missing] /\ written = disk
  /\ running = [f \in Files |-> Bare("default")]
  /\ edits = 0 /\ kills = 0

\* Mutant: every file must parse.
LoadStrict ==
  /\ ~loaded
  /\ disk' = AllRepaired
  /\ loaded' = (ReadsSettings(disk') /\ ReadsChannels(disk') /\
                \A f \in Files \ {"Custom"} : Parses(disk'[f]))
  /\ running' = [f \in Files |-> IF Loads(f, disk') THEN Says(f, disk'[f])
                                  ELSE Bare("default")]
  /\ report' = [kind |-> IF loaded' THEN "loaded" ELSE "refused", failed |-> {}]
  /\ UNCHANGED <<version, written, edits, kills>>

\* SharedConfig::load: settings, channels and special-chars.yml must be read; the
\* other sections fall back to the defaults.
Load ==
  /\ ~loaded
  /\ disk' = AllRepaired
  /\ loaded' = (ReadsSettings(disk') /\ ReadsChannels(disk') /\ Parses(disk'["special"]))
  /\ running' = IF loaded'
                THEN [f \in Files |-> IF Loads(f, disk') THEN Says(f, disk'[f])
                                      ELSE IF f = "lang" THEN Table(Bare("default"))
                                      ELSE Bare("default")]
                ELSE running
  /\ report' = [kind |-> IF loaded' THEN "loaded" ELSE "refused", failed |-> {}]
  /\ UNCHANGED <<version, written, edits, kills>>

\* /trchat reload, reload_from_folder: settings and channels or nothing; a section
\* that does not parse stays, and is named if it is one of Named or lang.
ReloadConfiguration ==
  /\ loaded
  /\ disk' = AllRepaired
  /\ IF ReadsSettings(disk') /\ ReadsChannels(disk')
     THEN /\ running' = [f \in Files |-> IF Loads(f, disk') THEN Says(f, disk'[f])
                                         ELSE IF f = "Custom" THEN Bare("default")
                                         ELSE running[f]]
          /\ report' = [kind |-> "reloaded", failed |-> Failed(disk')]
     ELSE /\ UNCHANGED running
          /\ report' = [kind |-> "failed",
                          failed |-> {IF ReadsSettings(disk') THEN "channels" ELSE "settings.yml"}]
  /\ UNCHANGED <<version, loaded, written, edits, kills>>

\* The operator writes a file, or removes it.
Write(file, tree) ==
  /\ edits < MaxEdits
  /\ edits' = edits + 1
  /\ disk' = [disk EXCEPT ![file] = tree]
  /\ written' = [written EXCEPT ![file] = tree]
  /\ report' = NoReport
  /\ UNCHANGED <<version, running, loaded, kills>>

\* The server stops, perhaps for an update of the plugin.
Stop(installed) ==
  /\ loaded /\ loaded' = FALSE
  /\ version' = installed
  /\ report' = NoReport
  /\ UNCHANGED <<disk, running, written, edits, kills>>

\* The server is killed while it repairs, file after file: the one it seeds is
\* torn; one it rewrites would be the old or, by the rename, the new.
Order == <<"settings", "datasource", "filter", "function", "special", "Normal", "Custom", "lang">>
Kill(n, torn) ==
  /\ kills < MaxKills
  /\ kills' = kills + 1
  /\ disk[Order[n]] = Missing /\ Order[n] # "Custom"
  /\ disk' = [f \in Files |-> IF \E i \in 1..(n - 1) : Order[i] = f THEN Repaired(f)
                              ELSE IF f = Order[n] THEN Bare(torn) ELSE disk[f]]
  /\ loaded' = FALSE
  /\ report' = NoReport
  /\ UNCHANGED <<version, running, written, edits>>

ConfigNext ==
  \/ Load \/ ReloadConfiguration
  \/ \E e \in Edits : Write(e[1], e[2])
  \/ \E installed \in {version, version + 1} \cap DOMAIN Bundled : Stop(installed)
  \/ \E n \in DOMAIN Order, torn \in {"bare", "broken"} : Kill(n, torn)

ConfigSpec == ConfigInit /\ [][ConfigNext]_configVars

(******************************* Properties ********************************)
\* What is written out is a tree again: below every key that is kept stands a
\* mapping, however the trees of the operator, the resource and the schema differ.
ConfigTypeOK ==
  /\ version \in DOMAIN Bundled /\ loaded \in BOOLEAN
  /\ report.kind \in {"none", "loaded", "refused", "reloaded", "failed"}
  /\ \A f \in Files : IsTree(disk[f])

\* A reload is believed: a section it does not name is in force as the file has
\* it, and one it names, or every section when it fails, is the one from before.
ReloadHonest ==
  [][/\ report'.kind = "failed" => UNCHANGED running
     /\ report'.kind = "reloaded" => \A f \in {"settings", "Normal", "function", "filter", "lang"} :
          running'[f] = IF f \in report'.failed THEN running[f] ELSE Says(f, disk'[f])]_configVars

\* What the operator wrote is never lost: a key every version has keeps its value
\* through repairs, updates of the plugin and kills; the files that are only
\* seeded stay as they were written.
OperatorsWordKept ==
  LET Honours(declared, p, value) ==
        p \in DOMAIN declared /\ (IsScalar(declared[p]) \/ {declared[p], value} \subseteq Lists)
      Declares(f, p, value) == \/ f # "Custom" /\ Honours(Bundled[1][f], p, value)
                               \/ f \in {"Normal", "Custom"} /\ Honours(Schema, p, value)
  IN  \A f \in Files : Root(written[f]) = "map" =>
        \A p \in DOMAIN written[f] :
          f \in SeededOnly \/ Declares(f, p, written[f][p]) =>
            p \in DOMAIN disk[f] /\ disk[f][p] = written[f][p]

\* What the resources are held to: no version takes a setting away or makes something
\* else of it, and the schema agrees with the channel that is bundled; what is seeded
\* can be read, and no channel of it is private.
SameKind(a, b) == (a = "map" <=> b = "map") /\ (a \in Lists <=> b \in Lists)
KeysStay ==
  /\ \A v \in DOMAIN Bundled, f \in Reconciled \ {"Custom"} : \A p \in DOMAIN Bundled[1][f] :
       Bundled[1][f][p] # "map" => p \in DOMAIN Bundled[v][f] /\ SameKind(Bundled[1][f][p], Bundled[v][f][p])
  /\ \A v \in DOMAIN Bundled : \A p \in DOMAIN Schema \cap DOMAIN Bundled[v]["Normal"] :
       SameKind(Schema[p], Bundled[v]["Normal"][p])
BundleReadable ==
  \A v \in DOMAIN Bundled :
    /\ \A p \in DOMAIN Bundled[v]["settings"] : Bundled[v]["settings"][p] \notin Unreadable
    /\ \A tree \in {Bundled[v]["Normal"], Schema} : ~HasOption(tree, "Private")

\* One repair is enough: after it every bundled key is there, and repairing again
\* would change nothing (the file is not rewritten at each start).
RepairSettles ==
  report.kind # "none" =>
    \A f \in Reconciled : Root(disk[f]) = "map" =>
      DOMAIN DefaultOf(f) \subseteq DOMAIN disk[f] /\ Repaired(f) = disk[f]

\* The plugin starts with whatever it seeds and repairs: only what the operator
\* wrote in a mandatory file, or a kill, can stop it.
StartsUnlessBroken ==
  report.kind = "refused" =>
    kills > 0 \/ \E f \in {"settings", "Normal", "Custom", "special"} : written[f] # Missing

\* No message is without its text: whatever the language file says or fails to
\* say, a key the installed version bundles is in the table in force.
EveryMessageHasText ==
  loaded => DOMAIN TextsOf(Bundled[version]["lang"]) \subseteq DOMAIN running["lang"]

\* The files of the operator survive repairs, updates and kills, and the plugin
\* starts with what they become.
FilesKept == ConfigTypeOK /\ OperatorsWordKept /\ RepairSettles /\ StartsUnlessBroken /\ EveryMessageHasText
===============================================================================
