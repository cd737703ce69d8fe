----------------------------- MODULE Preferences -----------------------------
(***************************************************************************)
(* The two tabs that change how the editor behaves, each over a file the   *)
(* user edits too.  They share no state, so a behaviour is of one of them. *)
(***************************************************************************)
EXTENDS Keybindings, SettingsTab

VARIABLE tab       \* the tab at work

vars == <<tab, keyVars, configVars>>

Init == tab \in {"keys", "settings"} /\ KeysInit /\ ConfigInit
        /\ (tab = "keys" => configFile = Absent) /\ (tab = "settings" => keysFile = Absent)

Next == \/ tab = "keys" /\ KeysNext /\ UNCHANGED <<tab, configVars>>
        \/ tab = "settings" /\ ConfigNext /\ UNCHANGED <<tab, keyVars>>

Spec == Init /\ [][Next]_vars

\* What the file says is what the tab shows and what the editor does, after
\* any changes, refusals and undos, as long as nobody else has edited the file
\* and the disk let a refused change be put back; and every chord bound is
\* reached by pressing it.
\* (record.rs: "the keymap, the `ctrl+k` menu, the hint and the palette all
\* move together"; keymap.rs: a chord bound on its own that starts a sequence
\* "could never reach its sequence".)
FilesInForce == KeysInForce /\ SettingsInForce

\* A change does what it says to the chord or the setting it is about and to
\* no other, keeps the comments, and one that is refused leaves the file.  Not
\* for chords spelled twice or that a file cannot spell, and not for a
\* keys.toml that cannot be read: see the README.
\* (write.rs: "keeping every other byte"; record.rs: "A file that would no
\* longer load is put back".)
ChangesAreExact == [][KeyChangesAreExact /\ SettingChangesAreExact]_vars

\* A keys.toml that cannot be read as text is refused and left to the user.
\* (write.rs: "A file that does not parse is refused, not replaced. Its text
\* is the user's to fix".)
RefusedNotReplaced == [][Replace \/ Unbind \/ Reset =>
                            (keysFile.is = "unreadable" => keysFile' = keysFile)]_vars
=============================================================================
