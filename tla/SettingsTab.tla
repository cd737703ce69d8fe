----------------------------- MODULE SettingsTab -----------------------------
(***************************************************************************)
(* The settings tab (`settings/`), the settings as config.toml has them    *)
(* (`config/schema.rs`, `config/settings.rs`) and the running editor's     *)
(* (`app/live.rs`).                                                        *)
(*                                                                         *)
(* A change sets one key or takes it out; the tab reads the file back and  *)
(* the editor applies that one setting.  Values are as the tab spells      *)
(* them.  The search row's query only narrows the list.                    *)
(***************************************************************************)
EXTENDS ConfigFile

CONSTANTS Listed,          \* the settings the query leaves in the list
          SettingFiles,    \* what config.toml may be at the start
          SettingEdits,    \* what others may make of it
          MaxSettingSteps  \* changes that can be undone, edits by others and
                           \* openings of the tab

VARIABLES configFile,      \* config.toml
          settings,        \* SettingsView
          running,         \* what the editor runs on, by setting
          widths,          \* the indent width of the editors that are open
          configPast       \* history: events so far, whether others have edited the
                           \* file, whether the tab has yet to read that

configVars == <<configFile, settings, running, widths, configPast>>

-----------------------------------------------------------------------------
(* The table of settings. *)

Kind == [theme |-> "Theme", color_depth |-> "Choice", indent_width |-> "Number",
         whitespace |-> "Choice", layout |-> "Choice", adapt |-> "Toggle",
         session |-> "Toggle", language |-> "File"]

Settings == DOMAIN Kind

Default == [theme |-> "slate", color_depth |-> "auto", indent_width |-> "auto",
            whitespace |-> "selection", layout |-> "focus", adapt |-> "true",
            session |-> "true", language |-> "rust, toml"]

Restart == {"color_depth", "language"}

\* The shipped themes (two of the six) and the files of the themes directory,
\* one of which does not parse.
Embedded == <<"slate", "mocha">>
Yours == <<"broken">>

Offered(row) == CASE Kind[row] = "Theme" -> Embedded \o Yours
                  [] row = "color_depth" -> <<"auto", "truecolor", "256">>
                  [] row = "whitespace" -> <<"none", "trailing", "selection", "all">>
                  [] row = "layout" -> <<"focus", "standard">>
                  [] OTHER -> <<>>

\* Widths as typed, of which those from 1 to 16 are taken.
Typed == {"", "0", "16", "17"}
Widths == {"1", "16"}

\* What parse takes; every theme is a name, and languages are read elsewhere.
Accepts(row, value) ==
    CASE row = "theme" \/ row = "language" -> TRUE
      [] row = "color_depth" -> value \in {"truecolor", "24bit", "256", "ansi256"}
      [] row = "indent_width" -> value \in {"1", "16"}
      [] Kind[row] = "Toggle" -> value \in {"true", "false"}
      [] OTHER -> value \in Range(Offered(row))

\* A value as it is shown once read.
Shown(value) == CASE value = "24bit" -> "truecolor" [] value = "ansi256" -> "256" [] OTHER -> value

\* Every key that parses and is taken, the rest at their defaults.
LoadSettings(file) ==
    [row \in Settings |->
        IF row \in Keys(file) /\ Accepts(row, file.lines[At(file, row)].value)
        THEN Shown(file.lines[At(file, row)].value) ELSE Default[row]]

\* The colours a theme's name gives: a file that does not parse, or no theme
\* of that name, gives the shipped ones.
LoadTheme(name) == IF name \in (Range(Embedded) \cup Range(Yours)) \ {"broken"} THEN name ELSE "shipped"

-----------------------------------------------------------------------------
(* The editor. *)

InForce(loaded) == [loaded EXCEPT !.theme = LoadTheme(@)]

NoEdit == [is |-> "none", at |-> 0, input |-> ""]
List(at) == [is |-> "list", at |-> at, input |-> ""]
Field(input) == [is |-> "field", at |-> 0, input |-> input]

SettingsOpened(file) == [shown |-> LoadSettings(file), selected |-> "none",
                         edit |-> NoEdit, undo |-> <<>>]

ConfigInit == /\ configFile \in SettingFiles
              /\ settings = SettingsOpened(configFile)
              /\ running = InForce(LoadSettings(configFile))
              /\ widths = IF running.indent_width = "auto" THEN "measured" ELSE running.indent_width
              /\ configPast = [events |-> 0, edited |-> FALSE, unread |-> FALSE]

\* Mutant: a reset does not reach the editor.
ApplyChosen(row, loaded) ==
    /\ running' = IF row \in Restart \/ loaded[row] = Default[row] THEN running
                  ELSE [running EXCEPT ![row] = InForce(loaded)[row]]
    /\ widths' = IF row = "indent_width" /\ loaded.indent_width # "auto" THEN loaded.indent_width
                 ELSE widths

\* apply_setting: the one setting, from everything as the file now says.  Of
\* the open editors, `auto` is not told.
Apply(row, loaded) ==
    /\ running' = IF row \in Restart THEN running ELSE [running EXCEPT ![row] = InForce(loaded)[row]]
    /\ widths' = IF row = "indent_width" /\ loaded.indent_width # "auto" THEN loaded.indent_width
                 ELSE widths

-----------------------------------------------------------------------------
(* Changes. *)

MoreSettingSteps == Len(settings.undo) + configPast.events < MaxSettingSteps

\* set: the key written or taken out, or a file that cannot be written, or
\* does not parse, left as it is.
Set(row, value, view) ==
    \/ /\ Parses(configFile) /\ MoreSettingSteps
       /\ configFile' = Written(configFile, row, value)
       /\ settings' = [view EXCEPT !.undo = Append(@, [row |-> row, file |-> configFile]),
                                   !.shown = LoadSettings(configFile')]
       /\ configPast' = [configPast EXCEPT !.unread = FALSE]
       /\ Apply(row, LoadSettings(configFile'))
    \/ settings' = view /\ UNCHANGED <<configFile, running, widths, configPast>>

\* A choice as the file holds it.
ChoiceValue(choice) == IF choice = "auto" THEN Nothing ELSE choice

PlaceIn(choices, value) ==
    IF value \in Range(choices) THEN CHOOSE i \in DOMAIN choices : choices[i] = value ELSE 1

\* The next or previous choice.  A click on another row's arrows takes the
\* selection there and leaves a control being worked.
Cycle == \E row \in Listed, step \in {-1, 1} :
    /\ settings.edit = NoEdit \/ row # settings.selected
    /\ LET choices == Offered(row)
           to == ((PlaceIn(choices, settings.shown[row]) - 1 + step) % Len(choices)) + 1
           at == [settings EXCEPT !.selected = row]
       IN  IF choices = <<>> THEN settings' = at /\ UNCHANGED <<configFile, running, widths, configPast>>
           ELSE Set(row, ChoiceValue(choices[to]), at)

\* enter, or a click on a value.
Activate == \E row \in Listed :
    LET at == [settings EXCEPT !.selected = row]
        shown == settings.shown[row]
    IN  CASE Kind[row] \in {"Theme", "Choice"} ->
                /\ settings' = [at EXCEPT !.edit = List(PlaceIn(Offered(row), shown))]
                /\ UNCHANGED <<configFile, running, widths, configPast>>
          [] Kind[row] = "Number" ->
                /\ settings' = [at EXCEPT !.edit = Field(IF shown = "auto" THEN "" ELSE shown)]
                /\ UNCHANGED <<configFile, running, widths, configPast>>
          [] Kind[row] = "Toggle" -> Set(row, IF shown = "true" THEN "false" ELSE "true", at)
          [] OTHER -> settings' = at /\ UNCHANGED <<configFile, running, widths, configPast>>

ResetRow == \E row \in {settings.selected} \cap Settings :
    Set(row, Nothing, [settings EXCEPT !.edit = NoEdit])

\* The text before the last change; a file that cannot be written is left.
UndoSetting ==
    /\ settings.undo # <<>>
    /\ LET change == Last(settings.undo)
       IN  /\ configFile' = change.file
           /\ settings' = [settings EXCEPT !.undo = Front(@), !.edit = NoEdit,
                                           !.shown = LoadSettings(change.file)]
           /\ configPast' = [configPast EXCEPT !.unread = FALSE]
           /\ Apply(change.row, LoadSettings(change.file))

-----------------------------------------------------------------------------
(* Working a control.  The list and the field are of the selected row,     *)
(* which need not be the row they were opened on.                          *)

SelectSetting == \E row \in Listed \cup {"none"} :
    /\ settings' = [settings EXCEPT !.selected = row, !.edit = NoEdit]
    /\ UNCHANGED <<configFile, running, widths, configPast>>

MoveInList == \E to \in {settings.edit.at - 1, settings.edit.at + 1} :
    /\ settings.edit.is = "list" /\ settings.selected # "none"
    /\ settings' = [settings EXCEPT !.edit =
                        List(Min({Max({to, 1}), Max({Len(Offered(settings.selected)), 1})}))]
    /\ UNCHANGED <<configFile, running, widths, configPast>>

Pick ==
    /\ settings.edit.is = "list" /\ settings.selected # "none"
    /\ LET choices == Offered(settings.selected)
           done == [settings EXCEPT !.edit = NoEdit]
       IN  IF settings.edit.at \in DOMAIN choices
           THEN Set(settings.selected, ChoiceValue(choices[settings.edit.at]), done)
           ELSE settings' = done /\ UNCHANGED <<configFile, running, widths, configPast>>

Type == \E input \in Typed :
    /\ settings.edit.is = "field" /\ settings.selected # "none"
    /\ settings' = [settings EXCEPT !.edit = Field(input)]
    /\ UNCHANGED <<configFile, running, widths, configPast>>

\* enter in the field: nothing is `auto`, and a refused width stays to be
\* corrected.
Commit ==
    /\ settings.edit.is = "field" /\ settings.selected # "none"
    /\ LET done == [settings EXCEPT !.edit = NoEdit]
           input == settings.edit.input
       IN  CASE Kind[settings.selected] # "Number" ->
                  settings' = done /\ UNCHANGED <<configFile, running, widths, configPast>>
             [] Kind[settings.selected] = "Number" /\ input = "" -> Set(settings.selected, Nothing, done)
             [] Kind[settings.selected] = "Number" /\ input \in Widths ->
                  Set(settings.selected, input, done)
             [] OTHER -> UNCHANGED configVars

-----------------------------------------------------------------------------

EditConfigFile == \E file \in SettingEdits :
    /\ MoreSettingSteps
    /\ configFile' = file
    /\ configPast' = [events |-> configPast.events + 1, edited |-> TRUE, unread |-> TRUE]
    /\ UNCHANGED <<settings, running, widths>>

\* The tab closed and opened: what the editor runs on stays.
ReopenSettings == /\ MoreSettingSteps
                  /\ settings' = SettingsOpened(configFile)
                  /\ configPast' = [configPast EXCEPT !.events = @ + 1, !.unread = FALSE]
                  /\ UNCHANGED <<configFile, running, widths>>

ConfigNext == \/ Cycle \/ Activate \/ ResetRow \/ UndoSetting
              \/ SelectSetting \/ MoveInList \/ Pick \/ Type \/ Commit
              \/ EditConfigFile \/ ReopenSettings

-----------------------------------------------------------------------------
(* Properties. *)

\* The tab shows what the file says once it has read it; the editor runs on it
\* but for what waits for a start and what others wrote; and an indent width
\* that is set is every open editor's.
SettingsInForce ==
    /\ ~configPast.unread => settings.shown = LoadSettings(configFile)
    /\ ~configPast.edited =>
          \A row \in Settings \ Restart : running[row] = InForce(settings.shown)[row]
    /\ running.indent_width # "auto" => widths = running.indent_width

SetNow == Len(settings'.undo) = Len(settings.undo) + 1

\* A change is to one setting, which then reads as it was set; every other
\* line is the user's, and so is every comment but those inside what is taken
\* out.  What is refused changes nothing.
SettingChangesAreExact ==
    /\ SetNow =>
          LET row == Last(settings'.undo).row
          IN  /\ NotesOutlive(configFile, configFile')
              /\ Keys(configFile) \ {row} = Keys(configFile') \ {row}
              /\ \A r \in Keys(configFile) \ {row} :
                    configFile'.lines[At(configFile', r)].value = configFile.lines[At(configFile, r)].value
              /\ row \in Keys(configFile') =>
                    settings'.shown[row] = configFile'.lines[At(configFile', row)].value
              /\ row \notin Keys(configFile') => settings'.shown[row] = Default[row]
    /\ ~SetNow /\ ~UndoSetting /\ configPast'.events = configPast.events => configFile' = configFile
=============================================================================
