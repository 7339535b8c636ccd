# X-Day engine: specification and proofs

This directory holds TLA+ models of the X-Day engine, the TLC configurations
that check them and TLAPS proofs about them. Source paths below are relative to
`src/src/` of the repository.

## 1. Inventory

| component | state | operations | who uses it |
|---|---|---|---|
| Console commands (`xdCore/Console`) | `Commands::instance.commands`, a vector of pointers; per command its flags and its value | `Register`, `Unregister`, `Get`, `Registered`, `Execute` (five overloads), `Initialize`, `Destroy`; per command `Execute()`, `Execute(args)`, `Enabled`, `RevertValue`, `Save` | main, the console thread, the key handler |
| Engine console (`xdEngine/Console`) | `ConfigFile`; the files on disk | `quit`, `exit`, `config_save`, `config_load`, `fullscreen`, `Initialize`, `ExecuteConfig` | main at startup, any console line |
| Engine (`xdEngine/xdEngine.cpp`) | `windowMain`, `windowMainFullscreen`, monitor and video mode; GLFW's close flag and event queue | `Initialize`, `createMainWindow`, `mainLoop`, `onKeyPress` | main |
| Program (`xdMain/main.cpp`) | the thread object `WatchConsole` | `main`, `watch_console` | the operating system |
| Command line keys (`xdCore/CommandLine.cpp`, `Core.cpp`) | `Keys::instance` (vector, `autoInitAllowed`), the key objects, `xdCore::params` | key constructors, `Keys::Initialize`, `AddKey`, `GetKey`, `Destroy`, `FindParam`, `ReturnParam` | static construction, main, every component that asks a key |
| Log (`xdCore/Log.cpp`) | sinks, level, two flags; `main.log` and what is still in the buffer in front of it | constructor, `Initialize`, `Flush`, the level functions, destructor | everybody |
| Filesystem (`xdCore/Filesystem.cpp`) | the paths, the directories on disk | `CFilesystem::Initialize`, `CreateDirIfNotExist`; `BasicInit`, `Initialize`, `Destroy` are empty | `Core.Initialize` |
| Debug (`xdCore/Debug.cpp`, `Debug.hpp`) | installed handlers, one static flag per macro use | `SetupHandlers`, `CleanupHandlers`, `Fail`, the macros | everybody, the operating system, the C runtime |
| Module loader (`xdCore/Module.cpp`) | a handle | load, `GetProcAddress`, unload | nobody yet |
| Vulkan demo (`VkDemoRenderer`) | window flags (`paused`), swap chain and its dependants, images, vertex, index, staging and uniform buffers, `vertices`, `indices`, one semaphore, one fence, command buffers | `mainLoop`, focus/refresh/key callbacks, `Initialize`, `LoadModel`, the other create functions, `DrawFrame`, `RecreateSwapChain` | its own `main` |
| Shaders of the demo (`VkDemoRenderer/Shader.cpp`) | sources and binaries on disk, a worker's two buffers | `LoadShader`, `LoadBinaryShader`, `CompileShader`, `CreateVkShaderModule` | `CreateGraphicsPipeline`, at the start and with every new swap chain |
| xdAPI, `Common` | nothing of interest | | |
| `dependencies` (TBB) | third party | | the build only |

How they interact:

* `main` constructs everything in a fixed order: arguments and keys, `Core`
  (file system, log, core commands), the console (engine commands), the startup
  config, GLFW, the engine, the window, then the console thread, then the event
  loop; afterwards `Core.Destroy` clears keys and commands while the console
  thread may still run.
* The console thread (`watch_console`, only with the key `syscmd`) and the main
  thread share, without a lock: the registry's vector, `windowMainFullscreen`,
  GLFW's close flag and the config files.
* Config files are console input: `config_load` executes each line through the
  same dispatcher, so that a line may load or save files again.
* Every failure ends in `Debug::Fail`, which logs, flushes and calls
  `std::terminate`; that aborts, and the abort is a signal whose handler calls
  `Debug::Fail` once more.
* What one run leaves on the disk (directories, log, configs, shader binaries) is
  what the next one starts from, and a run may be killed between any two steps.
* Commands are `static` in headers, keys are static objects: registration and
  initialisation run over several objects in an order no source file states.

What is hard here: the two threads, the order of startup and shutdown, files
that are read back at the next start or while they are being written, nested
loads, the event loop that sleeps, and textual searches that match too much.
The correctness each component needs:

* registry: a name has one command, the first that came; the dispatcher calls
  only the method a command is made for; removals disturb nobody else;
* commands with a value: a number stays within its limits (it does, but for NaN);
  what is saved in a config comes back when the config is loaded;
* engine console: a saved file is well formed at every moment and can be loaded;
  loads end;
* engine and program: nobody uses the window before it exists, the window has
  the mode the flag asks for, a request to close ends the process, nothing is
  executed after that, the exit is orderly;
* keys: every key answers, and answers about its own parameter;
* Vulkan demo: no resource is destroyed or rewritten while a submitted frame
  uses it, no frame waits for a signal nobody will give, the swap chain matches
  the window; what is asked of the surface is what it offers, formats and extents
  agree after every recreation, and what is drawn is the model on the disk;
* shaders: what worked goes on working whatever becomes of a compilation, a good
  source is enough, a forced compilation is current;
* log, file system and failures: directories are made parents first, a process
  that fails leaves everything it said in its log, and it does end.

## 2. Modules

| module | models | builds on |
|---|---|---|
| `ConsoleCommand` | a command's flags and the dispatch rule, no state | |
| `ValueCommand` | one command with a value: its limits, what it reads and prints, the config file it goes through | `ConsoleCommand` |
| `NameTable` | abstract: a table that binds a name to one object | |
| `CommandRegistry` | the vector of commands and all its operations | `ConsoleCommand`, implements `NameTable` |
| `Console` | the commands of the program, the interpreter of config files, `config_save` line by line | `CommandRegistry` |
| `AppLifecycle` | abstract: starting, open, closing, gone; one line at a time | |
| `Engine` | `main`, the event loop, the key handler, the console thread, restarts | `Console`, implements `AppLifecycle` |
| `CommandLine` | keys, their registry and the searches in the arguments | implements `NameTable` |
| `DemoParts` | the Vulkan demo's objects: order of creation and destruction, dependences, choice of adapter; no state | |
| `DemoData` | what the create functions put into the demo's objects: choices, formats, extents, the model, staging, the commands of the device | `DemoParts` |
| `FrameOwnership` | abstract: images change hands between program, graphics processor and screen | |
| `FrameLoop` | the Vulkan demo's loop, callbacks, `DrawFrame`, `RecreateSwapChain`, the device's queues and the presentation engine | `DemoParts`, implements `FrameOwnership` |
| `CompiledCache` | abstract: a cache of compiled shaders whose entries change in one step | |
| `ShaderCache` | the shader workers and their files, edits, failing writes, kills and restarts | implements `CompiledCache` |
| `Journal` | abstract: a file that holds a beginning of what has been said | |
| `Filesystem` | the directories and the order in which they are made | |
| `Log` | level, flags, buffer and file of the log, one operator per function | |
| `DemoProcess` | the demo's process from `main` to its end, `Core.Initialize`, `Debug::Fail`, handlers, macros | `Filesystem`, `Log`, implements `Journal` |
| `CommandRegistryProofs`, `CommandLineProofs`, `DemoCreationProofs`, `DemoProcessProofs`, `EngineProofs`, `ConsoleProofs`, `FrameLoopProofs`, `FrameObjectsProofs` | theorems | |
| `MCCommands`, `MCCommandLine` (the keys in it), `MCConsole`, `MCEngine`, `MCFrameLoop`, `MCDemoCreation`, `MCDemoProcess` | small instances for TLC | |

### CommandRegistry

`commands` is `Commands::instance.commands`; `enabled` the flag of every command
object, registered or not; `last` what the last dispatch did, so that invariants
can speak about it. An object is not its name: two translation units own
different objects called `help`. `Register`, `Unregister`, `SetEnabled`,
`Execute`, `ExecuteNamed` and `Destroy` are the functions of the same names. The
refinement mapping reads the table off the vector with the code's own lookup:
`table[n] = Get(n)`.

### ValueCommand

`command` is the object, a `Command<bool>`, `<int>`, `<float>`, `<double>` or
`<string>`; `value` the variable of the program it refers to, `min` and `max` its
limits (`max` is the `maxSize` of a string), `saved` the line of the config file
with the value it was made of. `ExecuteLine` is a line of a config or of the
console, whose arguments are put together again from the words of the line
(`Reread`); `ExecuteArgs` a call with arguments, as the program may make;
`Assign`, `SetMin` and `SetMax` what else the program may do; `Save` and `Load`
are `config_save` and `config_load` of this command's line. A bool is read by the
words of `Command<bool>`, the others by `std::stoi` and `std::stof` and printed
by `std::to_string`: these functions are constants (`StoI`, `StoF`, `IntText`,
`RealText`), of which the assumptions say what the C++ library promises. A number
of a float or a double is a multiple of a small unit, or `NaN`.

What the code does here that a reader may not expect, and that the properties
state as it is: a text that is no number, or too great for one, makes `std::stoi`
or `std::stof` throw, nobody catches, and the program ends (`Ends`); a double is
read back with the precision of a float. What contradicts the command's own
syntax, "range [min, max]", is that no limit refuses `NaN`: `RangeKept` states
the syntax, the run `value_range` shows how it is broken, and the theorem
`ValueOnlyNaNEscapes` that it is broken in no other way. The
repository has one object with a value so far, the bool `fullscreen`; the other
four kinds are modelled for the classes the header exports.

### Console

A line is a command name and one word of arguments. A thread has a `stack` of
active `config_load` and `config_save` calls and at most one `call` it looked up
and is about to make; `Resolve`/`Fetch` do the lookup, `Call` makes the call, so
that the registry can change in between as it can in the code. A load frame
keeps the contents its stream was opened with (a small file is in the stream's
buffer after the first read); opening for `config_save` truncates at once,
`SaveLine` writes and flushes one line of the copied vector. A missing file is
logged; a nesting deeper than `MaxDepth` is the overflow of the thread's stack.
`quit` without a window leaves the choice of the assertion inside GLFW open.

### Engine

`pc` is where `main` stands, `todo` what the running `Initialize` still has to
register, `mode` whether the window covers the monitor, `events` what GLFW has
received, `watcher` and `input` the console thread. ENTER is three steps
(`RevertRead`, `RevertStore`, `SetWindowMonitor`) because the flag it negates is
shared. Each failure of the start (GLFW, video mode, window) is an alternative.
`DestroyThread` is the explicit destructor call of `main.cpp:70`. After the
process has gone, `Restart` runs the program again over the files it left.
`AppLifecycle` is implemented through `phase` and `busy`, which are read off the
process, the window, the close flag and the threads. In it the application dies
while it is open only in the middle of a line: a killed process apart, nothing
else ends it before it closes.

### CommandLine

A key passes through construction (in any order before the arguments arrive, or
later, when a module is loaded), initialisation one key at a time, and use.
Arguments are tokens; what counts is whether one contains `--p_` and which names
follow it there, which is how `FindParam` and `ReturnParam` see them. A
duplicate name fails an assertion, which ends the process; so does a number key
whose value `std::stof` rejects, because `Key::Initialize` is `noexcept`.

### DemoParts and FrameLoop

`Uses` lists, create function by create function, the objects a function reads;
`made` and `stale` say which objects exist and which were made from something
that has been created anew since. An object is created in one step, because the
program is one thread; any creation may fail, which ends the program (an
exception nobody catches, or `ASSERT1`), and so may every later call of Vulkan
whose result is looked at (`CallFails`; that of `waitForFences` is not, and a
lost device is found by the submission behind it).

After the loop `glfwTerminate` destroys the window (`GlfwTerminate`), and only
then the static renderer goes, member by member, in the reverse order of the
declarations. `Parent` says through what each member is destroyed. Two are not
destroyed: GLFW writes the surface into a unique handle that has no owner
(`VkDemoRenderer.cpp:377`), and the shim that destroys the debug callback asks GLFW
for the function, which GLFW, terminated, no longer has (`VkDemoRenderer.cpp:62`).
They are `Outliving`; `LeaveMember` is what their destructors do: the callback's
nothing, the surface's, which calls through no instance, nothing or the end of the
process. So the callback outlives its instance. Nothing in the repository promises
that it does not; `TakenApart` says that it is these two that stay and no other.

`pc` follows `mainLoop` and `DrawFrame` call by call. The window changes, and
its callbacks run, while GLFW dispatches (`poll`, `wait`); only the size may
change at any moment. `onWindowRefresh` recreates the swap chain from there and
returns there (`back`). The device is known through the calls: `gfx` and `prs`
are the two queues in order of submission, a draw signals the semaphore, a
present waits for it and hands the image over; `queued`, `shown` and `reading`
are the images the presentation engine has to show, shows and still reads. It
may hand out an image it still reads; the fence is signalled when it no longer
does. An extent that is not the window's makes acquire and present report
suboptimal or out of date, as the driver likes; one that fits, success. The
queue families are chosen by the code's own walk (`FamilyOf`), so that whether
drawing and presenting share a queue follows from the adapter. `Owner` reads the
hands an image is in off the queues and `pc`.

Three things the model shows no property forbids, because nothing in the
repository promises otherwise: the uniform buffer is rewritten while an earlier
draw may still read it (only its projection is sure to fit, `ProjectionFits`); a
device with separate queues may lose a signal; a paused loop sleeps through a
request to close. They are noted here only.

Two assumptions are made: the window is created with the focus (GLFW's default),
and the surface reports a definite extent, not "as you like" (as Wayland does).

### DemoData

Here the create functions run operation by operation. `calls` is the list that
is being worked off (`InitializeSteps` or `RecreateSteps` of `DemoParts`), `at`
the function, `done` the operations it has finished; `Work` lists the operations
of the functions that take more than one. `machine` are the depth formats and the
types of memory, `offer` what the surface offers now, which may be something else
at each recreation, `file` the texture and the model on the disk. `chain`,
`pass`, `pipeline`, `frames`, `commands`, `image` and `buffer` hold what the
objects of the same names were made with and what is in them; `staging` is the
buffer through which an image or a buffer is filled, `queue` the command that was
submitted. The device executes it while the program waits (`Execute`, `Wait`).

Any operation may fail, which ends the program; only a refused submission goes
unnoticed (`lost`), because the code throws its result away. `ReadCorner` is one
turn of the loop in `LoadModel`: a vertex that has been met before is found in
the map, but one with a `NaN` equals none, not even itself, so that it is stored
each time and its index is zero. A corner whose index points out of the model
file's arrays (`Outside`) reads some vertex. The assumptions are what Vulkan
guarantees of every device (a depth format with stencil) and every surface (a
range of extents, a format, the mode fifo, limits for the number of images).

### ShaderCache

A text, and the whole binary compiled from it, is one value; `Nothing` is an
empty file, `Torn` the beginning of a binary. `CreateGraphicsPipeline` runs one
worker after the other (`todo`); `text` and `code` are the worker's
`shaderSource` and `binaryShader`, `pc` its place in `LoadBinaryShader` and
`CompileShader`. Opening the output empties the file, the words follow, and
neither failure is noticed, as in `glslang::OutputSpvBin`. Meanwhile the user
edits sources and clears binaries, the disk refuses, the program is killed; each
counts as an event. What the code makes of a damaged binary is modelled as it is:

* `CheckIfShaderChanged` always answers no: the comparison of checksums the file
  speaks of does not exist, so a binary is used for ever unless `shrec` is given;
* a source that is not writable counts as missing, because the stream is opened
  for reading and writing;
* the characters of a source are not followed by a zero; a text outside
  `ZeroEnded` may fail to compile although it is valid;
* a torn binary is neither missing nor empty, and is used until `shrec` is given.

None of these contradicts a promise of the repository; the properties say what
the code does provide around them.

### Filesystem, Log and DemoProcess

`dirs` are the directories there are, `unmade` those `Initialize` has still to
see to; a file in a directory's place, or no directory above `DataPath`, makes
`create_directory` throw. The paths the program forms end with a separator, and
under such a path `exists` does not find a file that is no directory. The values
of the keys `datapath` and `respath` are taken as they are: a root that is a file
and is named without a separator (`bare`) counts as existing, and it is the first
directory asked for inside it that cannot be made. `file` and `buffer` are `main.log` and what the sink
has not written; the C runtime may write a part of the buffer at any time
(`Spill`), and a process that does not return from `main` loses the rest
(`Lose`). `noLog`, `noLogFlush` and `debug` are the keys. `armed` are the signals
with a handler: a handler is reset before it is called, which is why the second
abort ends the process. `report` holds the arguments of the running
`Debug::Fail`, which takes three steps (log, flush, decide). `SIGSEGV` stands
for `SIGILL` and `SIGFPE`, whose handlers are the same. Everything the program
does while its window is open is `pc = "run"`: it says something, or fails in one
of the ways the code knows. Two things it shows are promised nowhere to be
otherwise: `nologflush` does not only switch off flushing, `Log::Initialize`
returns before it adds the file (`Log.cpp:64`); and the handler for the want of
memory returns after its report, so that `operator new` asks it again until there
is memory or the process is killed.

### Parts side by side

`MCCommands` and `MCDemoCreation` hold three and two specifications that share no
variable, so that one run can check all. Each part moves only while the other
rests at its beginning; the run visits the states of one and those of another, not their product, and what it finds is what each would show alone.

## 3. Runs

| run | checks | bounds |
|---|---|---|
| `commands` | unique names, right method, others undisturbed (order of registration, unregistering a loser), implements `NameTable`; a saved value comes back and does not drift; every key answers, values stand behind their keys, the keys implement `NameTable` too | registry: four objects, three names, two objects in conflict; words of every class (empty, lower, not lower). The vector never exceeds three, every operation is always possible: longer vectors add no new relation between two elements. Values: one command of each of the five kinds, fourteen words (no number, two words, too great for a float, `nan`), four limits; numbers in small units, of which the printed ones are every fourth, so that rounding can lead out of a limit. Keys: five with four names, up to three arguments besides `argv[0]`, all orders of construction |
| `value_range` | violated: a number within its limits stays there | as above |
| `console` | overflow only from a cycle, every line ends | one thread, two files that may include each other, depth 2 (as many as a chain of two files needs), an include in upper case, main writing the flag and clearing the registry at any moment |
| `engine` | types, window before thread, files, window follows flag, no late command, implements `AppLifecycle`, ESC and close end the program | two events per run, two runs of the program, one config file with the startup contents: none, one that sets full screen and asks to exit, one that saves itself. Two events suffice for an ENTER racing with a line and a close behind it |
| `engine_quit` | violated: `quit` ends the program | as above |
| `engine_exit` | violated: an orderly exit is not an abort | one run |
| `engine_saved` | violated: a saved config can be loaded | two runs |
| `commandline_find` | violated: a key is set only by its own parameter | the keys of `commands` |
| `frame_loop` | types, objects created from current ones, none taken away under a draw, the projection of the frame in flight, fence and semaphore, no empty swap chain, what is destroyed and what stays, implements `FrameOwnership` | five machines: one image more than the least and the most possible number, fifo and mailbox, one and two queues, adapters that must be passed over (one for the want of formats), none that will do; three events, enough for a resize, a refresh and a loss of focus in any order. At most three images: of more, the engine only queues more |
| `frame_loop_live` | close ends the program, the swap chain follows the window, nothing blocks | two machines with one queue, two images, two events |
| `demo_creation` | shaders: the source is used, what worked goes on working, implements `CompiledCache`; data: requests fit, formats and extents agree, no command misses what it needs, the model is shown | both shaders, three texts: a good one, a bad one, and one that is not followed by a zero; three events, enough for a kill in the middle of writing, an edit, and a full disk in the run after. Two machines (depth formats with and without stencil, one type of memory or three), three surfaces (their own extent, as you like, wider than the screen), three models (a repeated vertex, one with a NaN, a corner outside), any number of recreations with any surface, any submission refused |
| `demo_process` | parents first, a failure is reported, implements `Journal`, a failed assertion, an abort or a fault ends the process | directories whole, missing, or with one file in the place of one of them, roots with and without a separator behind a file; all combinations of three keys, seven messages, one of them below info; at most two messages while the window is open, in a file and a buffer (more only repeat); two kills or removals, any number of failures and restarts |

The five violated properties are findings: see `findings` in `PROJECT.json` for
the lines that disagree.

Fairness. `Engine` assumes weak fairness of the main thread and of the console
thread: the operating system schedules both, and neither waits for the other.
Nothing is assumed of the user: no line need be typed, no event need come, and
`getline` may sleep for ever. `BusyEnds` assumes weak fairness of the
interpreter, which is a plain loop. `CloseEnds` needs only the main thread.
`FrameLoop` assumes that the thread is scheduled, that the device executes what
is queued, and that the presentation engine goes on to the next image and lets go
of the one before, which Vulkan guarantees; no event need come. `DemoProcess`
assumes that the operating system runs the process through its start and through
`Debug::Fail`; nothing is assumed of an open window, and nobody need start the
program again. `CommandRegistry`, `ValueCommand`, `CommandLine`,
`ShaderCache` and `DemoData` state no fairness: nothing is claimed to happen. Deadlock is
checked in every run but `frame_loop`; `Rest`, `Ended` and `Finished` say where
the system may legitimately rest (main asleep without events, the process gone).
In `frame_loop` a machine with two queues can really stop: a draw may signal the
one semaphore before the present of the frame before has waited for it, the
signal is lost, and the second present waits for ever. `frame_loop_live` has
machines with one queue and checks deadlock: there no call waits for a signal
nobody gives.

## 4. Proofs

All theorems hold for every set of commands, names, keys, arguments and every
order of operations; they assume only the named assumptions beside the
constants (a name for every object, `Null` not an object, lower case
idempotent, lines whose arguments are words, files that hold lines, what the C++
library says of printed and read numbers, what Vulkan says of every device and
surface), and where a
theorem needs more, its own hypothesis. TLC evaluates the assumptions in the runs.

`CommandRegistryProofs`. The inductive invariant is `TypeOK /\ UniqueNames` with
the well-formedness of the last dispatch. Unique names cannot be left out: with
two commands of one name, erasing the first would rebind the name to the second,
and the step would be no step of `NameTable`. The lemmas say what the first-match
lookup answers (`LookupMeaning`), which elements an erasure leaves
(`ErasedElements`), and what appending and erasing do to the table
(`AppendBinds`, `ErasureUnbinds`); the refinement and the action properties
follow from them action by action. `OthersKept` needs only that
unique names make the objects of the vector different ones.

The same module has the theorems about `ValueCommand`, for every set of texts and
numbers. `ValueTypes` is inductive alone. The others then speak of one state or
one step: `PassedToValue` says that a value command gets the words it is given,
`StatusIsText` that what is saved is read back as it was written, `OutcomeTyped`
what a line may make of the variable. That nothing drifts (`LoadedSettles`) uses
that a float which came out of six decimals is printed and read as itself; that a
number comes back uses that printing and reading move it by `Resolution` at most,
and is false of a number nearer than that to a limit, which the property says.

`CommandLineProofs`. The invariant `KeysInv` adds to the properties: an
initialised key is set exactly when the search finds it (`Answered`); the keys
the walk of `Keys::Initialize` has passed are initialised; nothing is initialised
before the arguments arrive; late keys initialise themselves exactly from the end
of the walk on. Without the last two a late key, or one constructed before main,
could be missed. `LeastElement` (from well-foundedness of the naturals) gives
the first argument that mentions a key, on which `ReturnParamMeaning` rests, and
the first key of a name, on which the implementation of `NameTable` does
(`AppendedKey`).

`DemoCreationProofs`. First the shaders, for every set of texts and any number of events. The
invariant `CacheInv` is `CacheTypeOK`, the two safety properties (`Promises`)
and what an undisturbed worker knows on its way to them (`Undisturbed`): until
the output is opened, the stored binary is the one the worker began with; after a
compilation it is the new one, or still the old one if the text was rejected.
The safety properties speak of the last step of a worker only, so that without
these two the steps before it would establish nothing. The refinement
(`CacheSteps`) follows step by step; the lemmas `NotWriting`, `NotCreating`,
`WhileWriting` and `WhileCreating` say what the mapped variables are at each place.

Then the data, for every machine, surface, screen and model. `Progress(o)` counts
the operations that have been done for an object, and is `All` when its function
is through; since only one function runs, every other object is untouched or
finished (`Midst`, `AllThrough`), and a step disturbs only the object it is about.
The invariant `DataInv` says by this number what there is in each object:
`TargetsInv` of swap chain, render pass, pipeline and framebuffers, `MeshInv` of
the vertices, of which every sound corner read so far has its index, `ShapeInv`,
`DepthInv` and `TextureInv` of the images, `BufferInv` of the buffers. What an
image or buffer holds is decided by the device, so that they need `QueueInv`: at
most one command is pending, that of the operation before the wait, and
`StagingInv`: the staging buffer is there for its one user, with the user's data.
Without `QueueInv` the next operation could find the layout of two steps before;
a submission that was refused (`lost`) frees the content from all this, but not
formats and extents. The lemmas `DepthFormatIs`, `MemoryIs` and `RequestRight`
say what the choices answer; `FramesFit`, `PendingFits` and `ModelShown` follow
because all is through when a frame is drawn (`ReadyMeans`).

`DemoProcessProofs`. For every set of messages and any number of events. The
types (`TypeInv`) are `ProcessTypeOK` with `SinkIsOn`, which says when the log has
its file. `ParentsFirst` follows from `MadeInOrder`: the directories still to make
are the end of `CreateOrder`, and those before it are there or count as being there
(`bare`); from `Tree`, that no directory is there without the one it is in; `PlannedOrder` says
that each has its parent earlier. `FailureReported` speaks of the state after the
end of the process and needs what leads there: a handler that has been used up
belongs to a failure nothing returns from (`HandlersLeft`), so that the process
can only end in a second abort, and by then "aborting" has been said last and
flushed (`LastWord`). The implementation of `Journal` needs that nothing is
buffered between two runs (`NothingPending`), and so that `Fail` never returns to
a handler of a signal (`EndIsAsked`); `SaidSteps` says what each operation of the
log makes of the file and the buffer together.

`EngineProofs`. For every set of files and lines, any depth of nesting and any
number of events and runs. The invariant is `Control`: by the place main has
reached it says who may execute lines, whether there is a window and a console
thread, that the registry is empty behind `Core.Destroy`, and that main is past
its loop only with the close flag set (`EndsByLine`). `IdleWaits` and
`InterpretLeaves` say what the interpreter of one thread cannot touch, whatever
the line; with them `WatcherHasWindow` follows at once, `OnlyConsoleParts` and
`NoLateCommand` step by step, and every step maps to one of `AppLifecycle` or
to none.

`ConsoleProofs`. For the same constants. The types need more than themselves: a
file that is being saved must be open for a line to be appended (`SavesOpen`), and
a lookup answers a command only because the commands have different names
(`Found`), which `Lists` says of the registry while main fills it: what is
registered and what is still to come are the ten commands in their order.
`SavedIsPrefix` follows from `Saves`: a thread loads only, or it has one save at
the top of its loads, with no command in hand (`Saving`); the file then holds the
lines of the first commands, and the save has the others left or, if the registry
was cleared before it began, none. That the other thread is idle comes from
`Control`. `ConsoleOverflowOnlyFromCycle` is about the console alone, with any
number of threads, and assumes room for one activation per file. `Edge` says
which file a thread can still go to from which: by what is on the disk, by the
lines an activation has not read yet, by one activation above another, by the
command in hand. No step adds a way (`ReadEdges`, `FewerFrames`, `LoadEdges`,
`NarrowerFiles`: what a save writes leads nowhere), so that there is never a
circle; and by the pigeonhole principle a full stack that asks for one file more
would be one (`FullStackIsCyclic`).

`FrameLoopProofs`. For every list of adapters, any number of images and events.
`NoEmptySwapChain` needs that a window without the focus is paused and a paused
program does nothing but wait (`Awake`). The implementation of `FrameOwnership`
needs `FrameInv`, whose parts need each other: an image is held only from its
acquisition to its present, and not read by the screen once its fence has told
(`Holding`); behind the present of an image nothing of it is queued, and nothing
at all is queued while objects are created (`Queueing`). With two queues a
present waits for a semaphore that any draw may have signalled. `Matched` says
why it is still its own draw that is done: the draws not yet done belong to the
last presents not yet done, in their order, and there is one present more than
draws when the semaphore is signalled. This must hold when the adapter is chosen,
which happens before any draw (`Choosing`). `ProjectionFits` follows from the
same invariant: the extent changes only while the queues are empty, and the
uniform buffer is written only before an image is acquired (`Projected`).

`FrameObjectsProofs`. The create functions are lists of calls and a table of what
each reads, so that the proof is about lists: `UsesRanked` says that an object is
made only from objects earlier in `Initialize`, never from the debug callback, and
that what is made from something `RecreateSwapChain` makes again is made again
too. `Plan` says that what is still to be called can be worked off: it has
everything missing and everything stale; behind an object it has all that was made
from it; and what an object is made from is current or comes before it. Both lists
are plans at their beginning (`PlanInitialize`, `PlanRecreate`) and every call leaves one
(`PlanCreated`); when nothing is left, everything is there and current
(`PlanDone`). The invariant `Objects` states this by the place of the program, and
that nothing is drawn without it. `TakenApart` needs that the data members declared
first hold the parents (`ParentsFirst`), that a destructor has gone through
them from the end (`Left`), and that with the validation layers the callback is
there by then (`Reporting`). `SignalsFit` needs `Turns`: one queue holds draws and
presents in turn, and the semaphore is signalled exactly when the next to be done
is a present. The types need that the machine's list has an adapter where
`GetPhysDevice` finds one (`FirstSuitableIs`), and that the swap chain is made only
after it has.

Only model-checked: all liveness (`CloseEnds` of the engine and of the demo,
`FollowsWindow`, `FatalEnds`, `BusyEnds`), which the prover cannot reach, and the
five violations, which are traces. Every invariant and action property and every
implementation of an abstract specification that a passing run checks is proved.
The types of the registry, the keys, the console, the value commands, the shaders
and the demo's data are proved and not run apart from that: they are part of the
inductive invariants, and those of the console of `EngineTypeOK`.

## 5. Not modelled, and the plan

Not modelled by choice:

* wording of the log, of help and of reports; the build number and the version
  strings, which are only logged;
* localisation, which the code switches off; `GetValue` and `GetStackTrace`,
  which have no caller or no body;
* the module loader: nothing makes a `ModuleHandle`;
* the empty GLFW callbacks, xdAPI and `Common`, which have no behaviour;
* the numbers in the renderer's data: coordinates, matrices, the limits handed to
  glslang, the rates of blending and sampling. They are constants or go from one
  library to another, and nothing in the program depends on them;
* Intel TBB (`dependencies/include/tbb`). It is a vendored library and the larger
  part of the repository by far (some 40 thousand of its 45 thousand lines of
  code), but no source file of the engine includes a header of it; only
  `xdCore.vcxproj` names its directory. A model of it would say nothing about
  this program. Measured on the engine's own sources, about 4500 lines, the
  modules cover most of what has control.

What could still be added: the module loader, once something loads a module, and
`GetValue`, once something calls it.
