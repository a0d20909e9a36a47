# Nabat in TLA+

Nabat (`src/nabat`) is a Go framework for command-line programs: an `App` is built from options and
extensions, its commands form a tree that Cobra executes, and the handler of a command gets a `Context`
with typed values, prompts and live displays. The modules here state what the parts of it that keep state
or run concurrently have to guarantee, check that on small instances with TLC, and prove the core of it for
every value of the constants with TLAPS.

Every definition is translated from the source; `PROJECT.json` maps each one to its lines. Code outside the
repository (Cobra, Bubble Tea, `context`, `time`, the terminal) is modelled only as far as nabat uses it and
marked external.

## 1. The system

| Part | State it keeps | Operations | What is hard |
|---|---|---|---|
| Rows of a live status display (`status.go`, `status_row.go`, `status_model.go`) | `Status.rows`, `rowIdx`, and per row label, state, priority, hidden flag and timer, each row under its own mutex | `Row`, `Label`/`Set`, `Success`/`Error`/..., `Active`, `Hide`, `Show`, `Priority`; frames through `rowSnapshots` and `View` | goroutines update rows while a frame locks them one by one, twice; timers freeze and resume |
| The call `Context.Status` (`status.go:329-433`) | the work function's goroutine and result, the Bubble Tea program and its messages | run with or without a terminal, ctrl+c, end of the context, failing program | every order of those events must give the function's own result |
| The call `Context.Spinner` (`spinner.go:217-408`) | title, completion state, delay and tick timers, line on the terminal | select loop, live writes, final line, drain after a failure | four channels ready at once; writes that fail while the function still runs |
| App construction and command tree (`app.go`, `command.go`, `command_finalize.go`) | Cobra's tree, `App.meta`, groups, pending declarations, collected errors, `registrationFrozen` | `New`, `newCommand`, `registerPendingUnder`, `rollbackCommand`, `validate`, `Command` | init hooks run inside a registration and register commands themselves; any stage can fail |
| Runs and hooks (`app.go:711-741`, `955-987`, `1032-1085`) | the context Cobra keeps in each command, the `runState` in it, the hook slices | `Run`, `PersistentPreRunE`, `RunE`, `OnPreRun`, `OnValidate`, `OnPostRun` | ErrHandled at five places with different meanings; state left by an earlier run; hooks registered late |
| Argument and flag resolution (`context_resolve.go`, `arg.go`, `flag.go`, `arity.go`, `valuetype.go`), binding (`context_bind.go`) | values and sources of one `Context`; pflag's `Changed` | the cascades positional / environment / prompt / required / default and flag / environment / default / required | the orders differ between arguments and flags; pflag keeps state between runs |
| Prompts, confirmation, forms (`interactive.go`, `confirm.go`, `form.go`, `field_option.go`) | variables of the caller behind pointers, the text of a number field, collected refusals of options | `Input`, `TextInput`, `FilePicker`, `Select`, `MultiSelect`, `Confirm`, `Form` with its groups, the walk over the defaults without a terminal | a faulty option of a form, anywhere in it, comes after others have seeded variables; several bypasses of one confirmation |
| Help, version and completion (`help*.go`, `version*.go`, `completion*.go`) | three records of the configuration; flags on the root, commands in the tree, hooks before the user's | their options, `validateUniqueNames`, `registerHelp`, `registerVersion`, `registerCompletion` | names and shorthands that meet the user's or each other's; pflag panics over a duplicate; Cobra answers a true `--help` by itself |
| Progress bar (`progress.go`) | position and mutex, the writer's sticky error | `Increment`, `Add`, `Set`, `Done` | the width of `int`; the order of frames of several goroutines |
| Themes (`src/theme`, the theme options and `finalize` of `app.go`) | recipe and overrides of the configuration, palettes of tokens and aliases, the resolved theme; the catalog's two caches | `WithTheme...`, overrides, `Resolve`, `ValidateAliases`, `CheckRequirements`, `HasToken`, `Style`; `Get`, `Manifest` | alias cycles, slots with several sources, concurrent first use of the caches |
| Theme manifests (`src/theme/internal/manifest`) | tokens that build on tokens, a cache and an in-flight set per variant | `Parse`, `parseVariant`, `resolve`, `resolveSpec`, `colorOf` | recursion over maps ranged in any order |
| Logging extension (`src/logging`) | one level for all handlers, one mutex for all handlers, styles and attributes per handler | the level hook of each run, `Enabled`, `Handle`, `WithAttrs`, `WithGroup`, `SetStyles` | slices shared by an append; styles assigned while a line is put together |
| Output, tables, trees, lists, badges, help text, man pages, build information, working directory, test support | little or none | formatting, initialisation | nothing that interleaves |

How they interact: `New` builds the tree and installs `PersistentPreRunE` on the root and `RunE` on every
command, resolves the theme in between, and registers help, version and completion before the user's pending
commands; extensions and init hooks call back into `Command` and `OnPreRun` while `New` runs. `App.Run` calls
Cobra, Cobra calls the two functions, and these hand the run's `Context` over in the `context.Context` that
Cobra stores in the command. The handler calls `Status`, `Spinner` and the prompts through the `Context`. The
rows of a display are shared with any goroutine the handler starts; the event loop calls back into them to
draw. A progress bar and the log handlers are shared the same way; the level they log at is set by a hook
of each run. The catalog of themes is shared by the whole process.

What makes each part correct is stated as properties below; the hazards in `PROJECT.json` list the line at
which each could go wrong, the ones no property covers yet included.

## 2. Modules

| Module | Models | Correspondence |
|---|---|---|
| `StatusRow` | one row as data | a record with the fields of `StatusRow`; `Finished`, `Activated`, `HiddenRow`, `ShownRow` are the methods, `freezeTimer`/`resumeTimer` the helpers, `Snapshot` is `snapshot` |
| `StatusRows` | the rows under concurrency | each method is one action of a goroutine (it holds the row's mutex for its whole body); a frame is `ViewBegin` (copy under `Status.mu`), one `ScanRow` and one `SnapRow` per lock, `SortRows`, `Collected`, `Draw` |
| `LiveCall` | what `Spinner` and `Status` promise | abstract: refuse, start the function, the function returns, the call returns the function's error or, when there is none, nil or an error of its own |
| `SpinnerRun` | one call of `Spinner` | `pc` is the place in `Context.Spinner`; the select is a choice among the ready cases; `SetText` may come at any time, from a goroutine the function left behind, too |
| `StatusRun` | one call of `Status` | `pc` for the caller, `ui` and `inbox` for the event loop, `Result` for the choice after `fnDone.Wait`; `SetCompletion` may come at any time |
| `CommandTree` | registration | `stack` is the Go call stack of nested registrations: a `hooks` frame is inside `newCommand`'s loop over init hooks, a `regs` frame inside `registerPendingUnder`; user code acts when nothing is registered or inside a hook |
| `AppRuns` | runs one after the other | `pc` goes through `PersistentPreRunE` and `RunE`; `goCtx` is what Cobra's `cmd.ctx` holds: the run it stems from, the run whose `runState` it carries, its handled flag |
| `FieldResolve` | where a handler's values come from | `pc` goes through the constructors' checks (`New`), Cobra's parse (`ParseFlag`, `Parsed`), `resolveArgs` one arg at a time, its choice pass (`ArgsResolved`), `resolveFlags` one flag at a time, its choice pass, the handler; `pflags` is what the App's `pflag.FlagSet`s keep from run to run, `values` and `set` are the maps of the `Context` |
| `FieldOptions`, `FormFields` | the options of prompts and the fields of a form as data | each option is a function of a `promptConfig` or a refusal; `Entry` is `typedFormField`, `noteEntry` and the select fields |
| `Prompts` | one call of `Form`, `Confirm`, `Input`, `TextInput`, `FilePicker`, `Select`, `MultiSelect` | the options are applied one per step; a form without a terminal walks its fields; with one, the widgets are made one per step, and those of Huh (external) write what the user edits, check it when the user leaves, and commit |
| `ManifestStyles` | `manifest.Parse` | `stack` holds the `resolveSpec` calls under way, each with the color it works at; `visiting` and `cache` are the maps of the resolver; maps are ranged in any order |
| `ThemeResolve` | functions of package theme without state | overrides, choice of the variant, the cascade of each slot of `Theme.Resolve` |
| `Themes` | the theme part of `New` | options one per step, resolution, the two walks along alias chains and `Style` one token per step |
| `BuiltinOptions` | the options of help, version and completion | each option is a function of its record or a refusal |
| `NewApp` | `New` from its options to the App, and what one run makes of the help and version flags | composes the actions of `Themes` and the operators of `BuiltinOptions` with `config.validate`, the three registrations, `registerPending` and `validate`; `MultiByte` are the shorthands pflag panics over |
| `ThemeCatalog`, `ThemeRegistry` | the caches of `theme.Get` and `theme.Manifest`; what they promise | maps and slices are references: a `Theme` leads to its variants and from there to maps of tokens; `ThemeRegistry` is the abstract one, a value of one's own for every call |
| `ProgressBar` | the bar under its mutex | lock, move and draw are a step each; positions wrap at `MaxInt` |
| `Logging` | level, handlers, attributes | `pflags` is what the App's `pflag.FlagSet` keeps of the two flags from run to run; a slice is a backing array and a length; `SetStyles` and `Handle` take their steps under the mutex as the code does |
| `Stderr` | both of them in the goroutines of one App | composes `ProgressBar` and `Logging`: a goroutine is in at most one call of either |
| `MC*` | instances for TLC | constants only |
| `AppRunsProofs`, `CommandTreeProofs`, `FieldResolveProofs`, `NewAppProofs` (`Themes` and `NewApp`), `PromptsProofs`, `StatusProofs` (`StatusRows` and `StatusRun`), `TerminalProofs` (`Stderr` and `SpinnerRun`), `ThemeProofs` (`ThemeCatalog` and `ManifestStyles`) | theorems | see section 5 |

Abstractions. Texts, titles, names and errors are model values. A user function (work function, hook,
handler) may return anything at any time. The clock is a counter. In `CommandTree` the reasons a
registration fails are two: before the command's group is added to the parent (empty name, failing option) and
after it (names that collide, a flag, `finalizeCommand`). New registers `rootSpec.children` before the pending
commands; that list is always empty, because `New` applies a `WithCommand` to the configuration. In
`CommandTree` the commands that help, version and completion register are registrations of extensions; `NewApp`
looks at these three by name and leaves out hooks and extensions, which `CommandTree` has. In `AppRuns`, what
Cobra and `newContext` can object to before the first hook is one action (`Refused`); what becomes of the help and
version flags is in `NewApp`, where Cobra's and pflag's part (parsing, the panic over a duplicate, the `help`
command, a true `--help` answered before anything else) is marked external.

In `FieldResolve` a raw string is the sequence of its comma-separated items, and the kind `int` stands for
every kind parsed from one item (bool, the integers, float, duration): the syntax of numbers, which pflag and the
adapters read differently, is not modelled. A command declares a flag of one name once (pflag panics
otherwise). What pflag keeps of one parse for the next is modelled for the flags and not for the positional
arguments and the place of `--`, which the next parse sets anew unless Cobra stops before it. The
binding of a struct is that of one of its fields, as no field depends on another.

In `Prompts` a validation function accepts a set of values; texts, numbers and choices share that set, and
`Junk` is a text no number is parsed from. In the theme modules a style is a model value (`ThemeResolve`) or a
function of four colors and the settings that overlay each other (`ManifestStyles`); JSON is decoded already.
In `Logging` a line is its level, style and attributes, and the two flags are on the command line only: a value
from the environment, which is explicit as well, stands behind the one that pflag keeps (`FieldResolve` has both).

History variables, read by properties and by no guard: `late` (`SpinnerRun`) and `asked` (`StatusRun`) hold the
titles and completion states in force when the function returned and those set since, `said` (`Logging`) the command
lines of the runs so far (its length also bounds them), `meant` of a handler what `WithAttrs` was given for it.

Comments that begin "A mutant" mark variants of an action with one fault. No specification uses them: they
show that each property would notice that fault.

## 3. Runs

| Run | Instance | What it shows |
|---|---|---|
| `status_rows` | two keys, two goroutines, four calls, priorities 1 and 2, terminal of unknown height or five lines, clock 0..1 | `VisibleRowsShown` and `DisplayOrder`: a frame whose rows change between the two passes still holds, in order, every row nobody touched; `TimersTellTime`: no order of methods moves a timer back or lets a stopped one run; with fairness `ScreenCatchesUp`: the last updates reach the screen |
| `spinner` | two titles and none, all outcomes of the function, the context and the writer | `SuccessIsEarned`, `FinalLineTellsOutcome`, `CancelEndsAnimation`, and `ImplementsLiveCall`, the refinement of `LiveCall` with its fairness |
| `status_run` | all outcomes of the function, the context, the program and ctrl+c | `SuccessIsEarned`, `HeaderTellsOutcome`, `UIStops`, `ImplementsLiveCall` |
| `command_tree` | three declared commands, one nested in another, two names, one group, at most three commands that join, one init hook each | `NothingHalfRegistered`, `DeclarationsAccounted`, `RollbackIsLocal` |
| `app_runs` | the root and one command, with a handler, with hooks only or with neither, one hook of each kind, two global hooks, two runs | `StoppedRunsStop`, `EverythingCalled`, `FirstErrorReturned`, `StateOfThisRun` |
| `run_context` | as `app_runs`, one global hook | a comment of the code that the code does not keep, see section 6 |
| `field_resolve` | a root and one command, two names, fifteen declarations of args and flags (all kinds, required, prompted, persistent, shadowed, with arity, refused ones), three items of which one is a number, a prefixed and a literal variable, every small command line with and without `--`, with and without terminal, two runs | `SourcesInOrder` (against the precedence lists of `docs/architecture.md`), `NothingOutsideChoices`, `DefaultsSurvive`, `BoundAsDeclared` |
| `prompts` | two variables, three values of which one is zero and one passes the validation; lists of up to three options of a form or a confirmation, of up to two of a text, of one of a selection | `FaultyFormOnlySeeds`, `DefaultsTakenOrReported`, `OnlyAcceptedStored` whatever the user types and wherever the user gives up, `ConfirmIsEarned` |
| `manifest_styles` | three tokens whose bases and foregrounds name each other in every way, every faulty reference beside a sound token, second variants, faulty heads | `VisitingIsPath`; `ParsedAsWritten`: for every order of ranging, exactly the manifests that mean nothing are refused and the others come out as they are meant, against a definition by rounds |
| `new_app` | either themes (three tokens, every map of aliases over every set of styled tokens, lists of one to three options over themes of several variants, three terminals) or built-ins (ten lists for help, eleven for version, nineteen of completion and the user's flags, args and commands, all combined); afterwards styles are looked up or the App is run once | `CyclesRefused`, `LookupsAgree`, `LastOverrideWins`, `BuiltinsFit`, `BuiltinsAnswer` |
| `theme_catalog` | two goroutines, a sound, a faulty and an unknown name, any number of calls and edits | `RegistryKept`, and `ImplementsRegistry`, the refinement of `ThemeRegistry` with its fairness |
| `stderr` | two goroutines, a bar of two steps with ints of four bits, two runs of five command lines, three calls, four handlers, two styles | `NeverBackByItself`, `LevelAskedLast`, `SiblingsApart`, `LinesOfOneStyle` |

Why the bounds are enough. Two keys make two rows, and two rows are what a wrong order, a lost row or a
double row needs; four calls let two goroutines create both and move or hide one while a frame is
between its passes, with a tick of the clock before or after each. Three commands
give a parent, a child and a sibling of either, and a hook that registers under each while its own command is
rolled back; with two names two of them collide. Two runs are what state left by an earlier run needs, and two
global hooks let one be registered before a run and one during it. A cascade looks at one field at a time:
one name shows it, a second one shows that fields do not disturb each other, or share a name and do; two
commands give a flag that hides another. Three options of a form put a faulty one before, between and after two
fields on one variable or on two, and inside a group. Three tokens make a cycle, a chain into a cycle and a
token outside both. A help, a version and a completion with one flag or command of the user's make every
pair collide. Two goroutines make the races of the caches, of an append and of `SetStyles` with `Handle`; four
bits are the least that let a step of the bar wrap past a total of two.

Symmetry stands in runs without liveness only: the names of `command_tree`; the goroutines, attributes
and styles of `stderr`. No action tells them apart.

`CHECK_DEADLOCK FALSE` stands where the system ends by design: a returned call, the last of a bounded number
of runs, a frozen registration, a parsed manifest. The rows (the display redraws) and the catalog always have a step.

## 4. Fairness

- `StatusRows.FairSpec`: weak fairness of the renderer. The spinner's tick message keeps the event loop
  calling `View` as long as the display is up. The goroutines owe nothing.
- `SpinnerRun`: weak fairness of the caller's own steps and of the two cases of the select that stay ready once
  they are (the function's result and the end of the context). Go's scheduler runs the goroutine, and a select takes a
  ready case; nothing obliges the function to return or the context to end.
- `StatusRun`: weak fairness of the caller, of sending the function's result, and of each message the event loop
  has received. The function, the user and the context owe nothing, and the program need not fail.
- `LiveCall`: the call starts or refuses, and returns once the function has. The two calls are shown to
  implement this with the fairness above.
- `ThemeCatalog`: weak fairness of each goroutine inside `Get` or `Manifest`; no step there waits for another
  goroutine (a lock is held within one step). `ThemeRegistry`: a question is answered.
- All other modules have safety properties only. They are sequential code that ends when the user's functions
  do, or (`Stderr`) short critical sections. That `manifest.Parse` and the walks along aliases end follows
  from what is checked: no token is twice on a path of calls, and no cycle gets past the validation.

## 5. Proofs

The theorems hold for any value of the constants that satisfies the named assumptions of the module: types of
the bounds, `Root \in Cmds`, `Nil` and `None` outside the other values, the shape of what Go's types or the
constructors guarantee. `ForestAssumption` says that each declaration is nested in one other or is at the top,
with no cycle (a `WithCommand` is an argument of the call that nests it); `FieldAssumption` that the path of a
command ends with it and has no command twice, and that a command declares one flag of a name; `CallsAssumption` that the options of a `Form`
are those of `form.go` and that `WithYes` carries a bool. TLC evaluates all of them on the instances of section 3.

`AppRunsProofs`. `RunsTypeOK`. `RunsStateOfThisRun`: only `SetContext` changes the state a command's context
carries, and the two ways into `RunE` both pass through it. `RunsStoppedRunsStop`: `StoppedRunsStop` alone is
not inductive, since a run whose global hook returned ErrHandled goes on to `RunE`. The invariant adds that a
run that can still call functions (in a loop, before one, or on its way into `RunE` without the handled flag)
has been stopped by none. `RunsFirstErrorReturned`: until the handler has returned no error is pending
(`NothingPending`), so a hook that fails before it overwrites none, and `First` relates the error to the history
of calls; `FirstAppend` is the lemma about one more call. The property is about runs where only pre-run hooks return
ErrHandled, the others being those of section 6. `RunsEverythingCalled`: `CountInv` says at each `pc` how
many calls of each kind have been made and how many the loop under way has left; together they are what is due,
so that a loop that is over has called all of it. A hook registered by a goroutine while the global loop runs
only adds to it.

`CommandTreeProofs`. `TreeInv` speaks of the commands some parent lists, whether or not the tree leads to
that parent: each has a spec and its group, frames of init hooks never belong to the root (so that no rollback
takes the root's spec), and a failed command is in neither list. The properties about `InTree`
follow because what the tree leads to is listed. `TreeRollbackIsLocal`: `InTree` is a recursive function, whose
equation is proved first; the commands above one are the least set that is closed under parents (`Ancestry`),
which a step that registers or rolls back another command leaves alone. `TreeDeclarationsAccounted`: `DeclInv`
says of every declaration that is open where its command is to come from (`Located`: a frame of the stack has
still to register it, or it waits for the one it is nested in, which is open, being started, or reported), and of
every other that it has one command in its place or is reported. When the stack is empty only the last is left,
and along the depth of the forest a declaration that waits for a reported one is reported too.

`FieldResolveProofs`. `FieldNothingOutsideChoices`: each choice pass comes once, at the end of its cascade, so
`FieldInv` follows what it has looked at; after the first that is only the args whose name no flag will
overwrite, which the flags then leave alone, and after the second the flags. `FieldDefaultsSurvive`: no value
shares the slice of a declaration, so a handler spoils none, and every default value is that of a declaration of
its name (`Origin`), of which an unshared name has one (`OneDeclaration`). `FieldSourcesInOrder` and
`FieldBoundAsDeclared` from `ValueInv`: `FlagsParsed` says which flags of which commands hold something of this
run after so many items of the command line, `ArgValued` and `FlagsValued` that what the cascades have passed has
the source the precedence list names; a name that is unshared is stored once, so this is still true when the
handler looks.

`NewAppProofs`, first part: `Themes`. `ThemesAssumption` says that tokens are finitely many, that a theme in the
catalog or given by the user has its variants and maps over the declared tokens, slots and settings, and that
the change an override makes depends only on what Go passes it. A walk along aliases is compared with
the count of its hops: at each step it is as far as it has seen tokens, and has seen every hop before
(`WalkOK`). There are only so many tokens, so a chain that goes on after as many hops comes back to one it has
been at, and one that comes back goes on for ever; that makes the walk's own test the definition of a cycle
(`CyclesAreRefused`) and the alias walk of `Style` the one of the requirements (`LookupsAlwaysAgree`).
`LastOverrideAlwaysWins`: the palette the list of overrides makes says at each slot what the last override of that
slot said (`Says`, `Rivals`, `LastSays`), and resolving keeps it (`LastIsResolved`). An override that says "no
value" (nil, "", a glamour name that is not known) counts as the last one and yields the derived style; for huh
it yields the `Prompt` the variant has of its own, which no override changes (`PromptKept`), and the derived
style where there is none.

`NewAppProofs`, second part: the built-ins. `OptionsAssumption` says that the user's flags and commands are not nabat's.
The flags of the built-ins are added only where they collide with none, so two flags that clash are both the user's
(`ClashInv`), and what else makes `New` panic is a shorthand of several bytes; a flag of nabat's has its hook, and the help hook is the first (`OursInv`); how a run ended
is what its flags said when they were parsed and, if that let it through, what its hooks were asked for
(`OutcomeInv`). `BuiltinsAlwaysFit` and `BuiltinsAlwaysAnswer` follow.

`PromptsProofs`. The invariant has a part for each question. `FaultsCounted`: the errors counted are those of
the faulty options so far, a group's own being counted apart until it ends. `OnlySeeded`: until then nothing but
starting values is written; `SeedsKept` names the field that wrote them, which is in the form if nothing failed.
`Walked`: after n fields the error counts those without a default and each variable has the last default of
these n. `NumbersOK` and `Behind`: what a widget of a number holds stays in its own text, and a variable whose
fields are all validated holds an accepted value as soon as one of them is behind the user and another variable's
field is in front of him; a user who goes back and edits is in front of it again. `ConfInv`: what bypasses a
confirmation is what the last option of each name gave. That flattening the pages yields the entries of the
pages and no other (`FlattenContents`) needs the recursive function of the community module to exist
(`FlatExists`, by least counterexample).

`StatusProofs`, first part: `StatusRows`. `StatusOneRowPerKey` and `StatusTimersTellTime` from `RowsInv`: the index
and the rows are inverse to each other, and a timer that is frozen was frozen at a time not after now. Every method
that changes a row keeps a relation between the old and the new record (`Kept`). `StatusVisibleRowsShown` and
`StatusDisplayOrder` from `FrameInv`: what the first pass saw of a row is still so unless the row was touched,
the order is the sorted list of what it saw, and the second pass copies the rows of that list one by one.

`StatusProofs`, second part: `StatusRun`. The type invariant, and that a call implements `LiveCall` (the safety
half). `SuccessIsEarned` and `HeaderTellsOutcome` are about the state after
`Program.Run`; they follow from what holds while it runs: `FnInv` says where the function can be at each `pc`,
`LoopInv` that the model is done only with the function's own error, that no `done` message
exists before the function returned, and that a program that ended without an error has drawn the header; `AskedInv`
that the completion state in force is one of those `asked` holds.

`TerminalProofs`, first part: `Stderr`. A lock protects a promise that holds whenever it is free, and the invariant
says for each goroutine in a critical section what it has seen and owes at the end. `StylesOK`: the
installed handler is of one style while the mutex is free, and only the goroutine in `SetStyles` on it holds it
otherwise. `BarOK`: the frame shows the position while the bar's mutex is free, so the next frame goes back only
where a move asked for it; an `Add` that can wrap is one of those, and `NoWrap` is the arithmetic of the others.
`SlicesOK`: the part of its array a handler looks at says what the handler was given; arrays are made and never
written again, which is all that `StderrSiblingsApart` needs. `LevelOK`: pflag
holds for each flag what the last of the runs so far that was given it was given (`SaidMore` is one run more), and
the level in force while a run calls its handler is what follows from that.

`TerminalProofs`, second part: `SpinnerRun`. The type invariant; `SuccessIsEarned` and `WriteFailureReported` from an
invariant that ties what `finish` will return to what it was given (`liveErr`, `cancel`, `fnErr`) at each `pc`; that
every initial state and step is one of `LiveCall` or leaves it alone, which is the safety half of
`ImplementsLiveCall`; and `SpinnerFinalLineTellsOutcome`: after the function has returned only `finish` draws, with
the outcome it returned, and the title it reads is the one the function left or one set since (`LateInv`).

`ThemeProofs`. References have owners: one made by a parse is shared only through the cache it was stored
in, one made by a copy belongs to the goroutine it was made for. The invariant says that an entry of a cache, and
the reference a call is about to store or copy, was made by a parse, leads to itself and says what the manifest
says (`Entry`), and that what a caller holds leads to its own copy or to a palette of its own (`HeldInv`).
`CatalogRegistryKept` follows, and `CatalogRefinesRegistry`, the safety half of the refinement: a step that
returns is an answer, an edit changes one caller's value, every other step a stutter. `ManifestVisitingIsPath`: the
in-flight set of the manifest's resolver holds the tokens of the stack and no other, each once and none already
cached (`StackOK` types the frames), so the recursion is no deeper than the manifest has tokens.
`ManifestParsedAsWritten`: `ManifestsAssumption` says that a manifest has finitely many tokens and that the names of
variants are names. What a manifest means is defined by rounds, each of which gives a style to the tokens whose
references have one by now. A round adds and never changes (`MeansMore`, `RoundExtends`), so that after as many as there
are tokens another one makes the same (`MeaningIsFixed`), and tokens of which each needs another of them
get none (`NobodyFirst`). `WrittenInv` says of every call under way that the parts behind it are without fault and its
half-built style is the half of what is meant (`CallOK`), that each call asks for the token of the next, and
that the cache and the maps to be returned hold what is meant; so every error points at a token without meaning, a
reference back to a token under way included.

Only model-checked: liveness (`ScreenCatchesUp`, `CancelEndsAnimation`, `UIStops`) and the fairness half of the
refinements, which the prover does not reach. Every invariant that a run checks is a theorem.

## 6. Where comments and code differ

`run_context` is a run that TLC ends with a counterexample: "ctx is the base context for each RunFunc"
(`app.go:958`); the second run of a subcommand works under the context of its first.

Met on the way, without a run of their own.

Live displays and progress:
- "Without priorities, the most recently added rows are kept" (`status_model.go:211`); the code keeps the rows
  added first (`status_model.go:233`).
- `Hide` and `Show` leave an active row with a timer that stands still (`status_row.go:169`).
- "A call after the work function returns is a harmless no-op" (`spinner.go:179-180`): a `SetText` by a goroutine the
  function left behind, between its return and the final line, changes the title of that line; so do
  `Status.SetTitle` and `SetCompletion` until the last frame is drawn. `FinalLineTellsOutcome` and
  `HeaderTellsOutcome` allow exactly those.
- `ProgressBar.Add` adds before it clamps: a step that wraps takes the bar to 0 and not to its total
  (`progress.go:249`). `NeverBackByItself` excepts exactly those steps.

Commands and runs:
- Commands nested with `WithCommand` in one that user code registers by `App.Command` or `Command.Command` are
  never registered, and no error says so (`command.go:76-78`).
- "commands with no handler or hooks print help" (`app.go:1034`); so does a command without a handler whose hooks were
  registered by `OnPreRun`, `OnValidate` or `OnPostRun` after `attachRunE` looked (`app.go:1037`).
- "Return `nabat.ErrHandled` from any hook to stop the pipeline and exit with success" (`README.md:689`): `Run`
  returns the ErrHandled of a validation or postRun hook as an error. `FirstErrorReturned` leaves these runs out, and
  no property states that line of the README.
- A registration that fails late leaves its group on the parent although "nothing is registered" (`app.go:935`);
  rolling a command back leaves the specs of the commands registered under it in `App.meta`.

Fields:
- `Explicit` reports what was provided "as opposed to using only a registered default" (`context.go:140-142`); an
  arg that has the name of a flag of its command or a persistent flag of a parent, which nothing refuses,
  holds that flag's default and is explicit (`context_resolve.go:97`).
- `WithExactArgCount` counts the arguments "before any -- separator" (`arity.go:58`), and the validator it sets
  counts those after it too.
- A pointer field takes a value that converts where a plain field wants one that is assignable, so an int bound to
  a `*string` becomes a character (`context_bind.go:155`).
- `WithMultiSelectArg` keeps the caller's slice as its default (`command.go:496`).
- A flag given in one run of an App is taken as given in the next ones (`context_resolve.go:162`), before the
  environment; `SourcesInOrder` and `BoundAsDeclared` count it as given.

Prompts:
- "Fields outside any group land in the default first page" (`form.go:232-233`, `87-88`); they land in
  the first group there is, which is the user's own if `WithFormGroup` came before them.
- `WithMultiline` beside `WithFilePicker`, `WithEditorCmd` without `WithEditor` and `WithLimit` on a single
  select have no effect and are not reported; `WithConfirmValue("")` is no confirmation value at all.

Help, version and completion:
- "use WithoutHelpFlag or rename via WithHelpFlagName to resolve" (`help_register.go:121`): renaming does not
  resolve it for a flag of the root named `help`, since a renamed help flag keeps a hidden `--help` beside it,
  which collides again.
- `WithHelpShorthand` keeps any rune (`help_options.go:128-135`; the version's must be printable ASCII,
  `version_options.go:175`), and so does `WithShort`; pflag panics in `New` for one that is more than one byte.
- With `WithoutHelp` or `WithoutHelpFlag`, Cobra adds its own `--help`, `-h` to the command it runs: a `-h` of the
  user's or of `WithVersionShorthand('h')` makes every run panic.
- A persistent shorthand of the root and the same one of a subcommand pass `New` and panic when that
  subcommand is run; the check of `validate` for persistent shorthands is never reached, pflag panics first.
- A true `--help` is answered by Cobra before the arguments are looked at; a renamed help flag is answered by a
  hook, after `newContext`, so that a missing required argument is the error instead.
- A bool flag of a subcommand's own that has the name of the built-in one triggers the built-in.
- A user's command with the name of the help command is not refused: Cobra adds its help command only when it
  runs.

Themes and logging:
- `New` never calls `Theme.Validate`, and `Validate` lets a theme of several variants have no default
  (`theme.go:326-327`).
- `GlamourFor` is called "when Glamour and GlamourName are zero" (`theme.go:126-127`); the code asks it before
  `GlamourName`. "Unknown names fall through to glamour's own default" (`theme.go:122-123`); they fall through
  to the style derived from the tokens (`theme.go:230-235`).
- "Theme.Resolve uses it when chroma slots are empty" (`defaults.go:47`): nothing calls `ChromaPreset`.
- "Nil reverts to the [PromptFromTokens] fallback" (`override.go:105-106`): `SetHuh(nil)` leaves `Palette.Prompt` in
  place, which comes first.
- `WithLevelFlag` "sets the per-invocation level" (`logging.go:86-87`): the level and verbose flags of one run of an
  App stay in force in the next ones, since pflag keeps them and `Explicit` reports them as given; after a
  `--log-level` nobody knows every later run that does not give one fails.
- The derived styles of chroma, glamour and prompts take tokens as they are, without their aliases.
- `WithStrictThemeRequirements` speaks of "a hard *ConfigErrors failure" (`app.go:323-324`); the check returns
  a plain error.
- "mu guards w and styles" and "Safe for concurrent use, including handlers derived" (`handler.go:26-38`):
  `WithAttrs` and `WithGroup` read the styles without the mutex. A handler derived while `SetStyles` runs may be half
  in each style, which is why `LinesOfOneStyle` speaks of the installed handler.
- `WithGroup` prefixes attributes added before it, too, when the line is written.

Not modelled:
- `UnsafeForm`, titles, key maps and the look of widgets (Huh's), empty interactive groups.
- The `levelGate` around a custom handler, JSON handlers, the text of a line.
- The catalog's `All`, `Names` and `Schema` (they read the embedded files), JSON decoding and its errors, colors
  as such, the layout of every display.
- The text of help and version, the completion scripts, man pages, build information: straight-line code
  over Cobra's generators.
- Output, tables, trees, lists, badges, Markdown: sequential formatting whose only state is the writer's sticky
  error, which `ProgressBar` has.
- `nabattest` and the working directory of a context: no state that outlives a call.
- In `config.validate`, the empty name and nil streams.

## 7. Plan

Done: the live displays, the command tree, `New` with themes and built-ins, the runs, the resolution and
binding of args and flags, prompts and forms, manifests and the catalog, the progress bar and logging; the
theorems of section 5. What is left, in this order:

1. `AppRuns` and `NewApp` composed: the built-in hooks as the first of the global ones of `AppRuns`.
2. `Prompts` joined with `FieldResolve`, whose prompt step is one of its calls.
3. The handler wrapped by `levelGate`, and a bar and a status display on one stderr.
