# Verification of the coroutine rewrite library

The repository lowers C++20 coroutines by hand to C++17: a coroutine becomes a
frame object with a switch over a suspension index, `co_await`, `co_yield` and
`co_return` become macros, and handles, generators, tasks and an optional monad
are built on top. What a compiler guarantees for a coroutine (every local is
destroyed exactly once, an exception ends up where the language says, a frame is
never touched after it is gone) is here the responsibility of this code. This
directory models it in TLA+, checks the models with TLC and proves most of what it
checks with TLAPS. Paths below are relative to the repository; paths in
`PROJECT.json` have one more `src/` in front.

## The system

| component | state it keeps | operations | what makes it correct |
|---|---|---|---|
| awaiter protocol (`util/suspend.h`, `util/macros.h`) | none | `CO_AWAIT_IMPL_IMPL`, the same decision in `unhandled_exception()` | both code paths suspend when the language would |
| heap frame (`util/coroutine_frame.h`, macros, `util/coro_storage.h`) | function pointers (null once done), `suspendIdx_`, `currentTryBlock_`, untyped buffers for awaiters and locals, promise | `ramp`, `resume`/`doStep`, exception dispatch, `unhandled_exception`, `destroy`, `deleteFrame` | every object destroyed once; a freed frame is not read; a finished body does not run again |
| handles (`util/coroutine_handle.h`) | a pointer to the frame | `resume` (a trampoline over returned handles), `destroy`, `done`, promise/handle conversion, `noop_coroutine` | the loop resumes only what can be resumed, and ends |
| tasks (`task/task.h`, `task/task_example.h`) | handle in the task object; `continuation_`, value and exception in the promise | `start`, `co_await`, final transfer, `result`, destruction | an await behaves like a call, no wakeup is lost, no frame is orphaned; the loop of `add_values()` leaves its buffers as it found them |
| generators (`generator/unified_generator.h`) | handle or inline frame; current value, pending exception; iterators point to the handle | `begin`, `++`, `*`, comparison with `end()`, move, assignment, swap, destruction | every frame has one owner; whoever moves generators about under their iterators still sees streams |
| `throwing_parse_ints` (`generator/throwing_parse_ints.h`) | iterators, `__constructed` flags, catch labels | body, dispatch, catch clause, `destroySuspendedCoro` | same behaviour as the coroutine in its comment |
| optional monad (`optional_monad/`) | holder of the result in `ramp()`, pointer to it in the promise | `co_await` on an optional, short-circuit, `return_value`, move of the holder, conversion | same result as the functions without coroutines; the pointer is written only while it exists |
| inline frame (`util/inline_coroutine_frame.h`) | like the heap frame, `done_` instead of the null pointer | `ramp`, `doStep`, `destroy`, copied bit by bit when its object moves | like the heap frame, without freeing |
| `string_prepend`, iota generators (`generator/`) | iterators, temporary string, counter | body, `destroySuspendedCoro` | yields what the loop in the comment yields |

Components interact by calls on one thread: client code calls a generator or a
task, that calls its handle, the handle calls `doStep()` through a function
pointer, the body awaits an awaiter, and the awaiter may call back into the handle
(`destroy()`), store it (`continuation_`) or return another one to go on with. What
makes this hard is re-entrancy and ordering, not parallelism: a frame can be
destroyed by a call it is in the middle of, a task can be resumed by code that
knows nothing of the one waiting for it, an exception can arrive when any subset of
the buffers is alive. The list of these places is `hazards` in `PROJECT.json`.

## Modules

| module | models | relation to the code |
|---|---|---|
| `Awaiters` | the awaiter protocol | an awaiter is one of six kinds; `AwaitReturns` is the macro, `UnhandledAwaitReturns` the copy in `unhandled_exception()`, `ShouldSuspend` the rule both should follow |
| `Coroutine` | contract of a coroutine, for its owner and its body | status and live objects only |
| `CoroFrame` | a heap frame with any body that keeps the rules of the library | operators on a frame record for the calls (`CoAwait`, `CoReturnImpl`, `UnhandledException`, `DestroyFrame`, ...), one action for each stretch of code up to the next point where owner, body or handler decides |
| `CoroFrameProofs` | theorems about `CoroFrame` | |
| `TaskCalls` | what tasks promise: call stacks | |
| `Task` | tasks that own and await tasks, on the trampoline | one action per call of a resume function, await, finish, or destruction step; a frame is identified by its address, which is used again |
| `ParseInts` | the generator of the comment at `throwing_parse_ints.h:11-30` | |
| `ThrowingParseInts` | its lowering, in a heap frame, in a generator, under a range-for loop | one action per entry point of the switch, per exit of the body and per stage of the exception dispatch |
| `AddValues` | `add_values()` and the two `compute_value()` it awaits per iteration | one action per stretch of the body between two awaits, per step of the loop in `resume()`; numbers are `size_t` of `Width` bits |
| `Maybe` | the three coroutines that return `std::optional<int>` | one action per await, return, throw, and per step of returning the holder |
| `Generators` | what generator objects promise: streams that can be moved and swapped | |
| `GeneratorFrame` | the frames of `iota_unified`, `string_prepend` and a throwing `throwing_parse_ints`, in both kinds of frame | a step is a function from frames to frames: nothing else happens while the body runs |
| `UnifiedGenerator` | several generator objects of either policy and their iterators | one action per public operation; the policy, a template parameter, is chosen in `Init` |
| `TaskProofs`, `ThrowingParseIntsProofs`, `MaybeProofs`, `UnifiedGeneratorProofs`, `AddValuesProofs` | theorems about these modules | |
| `TaskCallsProofs` | that `Task` implements `TaskCalls` | |
| `LeastNumber` | induction by a least counterexample, for the proofs about recursive functions | |

`Coroutine`, `TaskCalls`, `ParseInts` and `Generators` are abstract specifications;
`CoroFrame`, `Task`, `ThrowingParseInts` and `UnifiedGenerator` are shown to implement
them under refinement mappings (`Status` and the live locals; `CallsBelow` reads the
stacks off the frames; the identity on what the loop sees; `StreamOf` reads a stream and
a position off a frame). `Maybe` has its reference in operators, `ChainedNoCoro` and
`ThrowsNoCoro`, translated from the `_no_coro` functions of the repository, `AddValues`
in `SumFrom`.

The body in `CoroFrame` is not one program but any: between awaits it creates and
destroys locals as it likes (`BodyWork`), and it may await, return, throw and be
continued at a catch label where exactly the locals of `LiveAt` for that point are
alive. That is the obligation whoever writes a `destroySuspendedCoro` takes on; the
model takes it as a guard, and the modules of concrete bodies
(`ThrowingParseInts`, `Maybe`) check it instead, with their buffers one by one.
The owner of a handle resumes only what is suspended and not done, and destroys only
what is suspended, as `std::coroutine_handle` requires.

The client in `UnifiedGenerator` keeps to what a client can know, and the guards say what
that is: an inline generator is not used after it was moved from (`Usable`);
`begin()` is not called once the end was reached;
`++` follows a comparison that said there is more; and after a move or swap has put a
generator that was never begun under an iterator, `*` waits for `begin()`. Everything
else is free: moves, assignments and swaps at any suspension point, self-assignment,
self-swap, `begin()` in the middle, iterators of objects that are emptied, refilled and
swapped. The inline streams are those of `iota_unified()` (`StreamAssumption`): no other
generator of the repository has an inline frame.

A *ghost* part of the state records what C++ would make undefined: a buffer destroyed
while empty (`dead`, `misdestroyed`), a call through a null handle (`fault`). Reading an uninitialised flag is a choice from `Garbage`,
and so is `*opt_` of an empty optional.
The holder's write to a promise that is gone is a step like any other (`data_`): it is
taken to hit nothing else, and what is said of the result of `with_exceptions()` presupposes that.

`MC*` modules give the constants values. A definition named `X_Y` is `X` with the
defect `Y`; nothing uses it, it is there to show that the property its comment names
can fail.

## What is checked

| run | cfg | what it shows | bounds |
|---|---|---|---|
| `frame` | `MCCoroFrame.cfg` | no leak, no double destruction, truthful `ExceptionResult`, both await paths follow the rule, done stays done, implements `Coroutine` | two locals in nested scopes, two awaits, two returns, two catch labels; 112 states, complete |
| `frame_noexcept` | `MCCoroFrame_noexcept.cfg` | the same clean-up for `isNoexcept` frames, in which every awaiter (initial and final too) may destroy the coroutine and `await_resume()` may throw, which terminates | three locals, three awaits, three returns; complete |
| `task` | `MCTask.cfg` | the loop's targets are ready, no wakeup is lost, continuations are awaits of live frames, nobody is orphaned, an await is a call and an exception goes up to the nearest try-block, `resume()` and `destroy()` return, started tasks end | three frames, one of them with a try-block, two awaits or caught exceptions per body |
| `add_values` | `MCAddValues.cfg` | the result is that of the loop without tasks, the two shared buffers hold exactly what `destroySuspendedCoro` would destroy, `start()` returns with a result | all pairs of 3-bit numbers |
| `parse_ints` | `MCThrowingParseInts.cfg` | every buffer destroyed once wherever the loop stops, the handlers nest as deep as the last run of bad strings is long, behaviour of the comment, `begin()` and `++` return | all ranges of up to four strings, of three kinds |
| `maybe` | `MCMaybe.cfg` | results equal those without a coroutine, the holder is filled before it is read, nothing is destroyed twice but the promise on the heap | both signs, zero divisors, 0 to 3 iterations |
| `generators` | `MCUnifiedGenerator.cfg` | each frame has one owner, an iterator that may go on never meets a null handle, every frame, also a moved-from one, can be destroyed between any two steps, the objects behave like streams | both policies; three objects, three addresses, two iterators; streams that are empty, of one or two elements, or end in an exception, the inline ones empty or of two elements |

The frame model has no counters, so its only bound is the number of locals and
points; two nested scopes are what tells a wrong index from a right one, and the
proofs cover the rest. Three frames are the fewest with a chain of two awaits and
with two started tasks beside each other; a longer chain repeats the same transfer. Four
strings give two caught exceptions in a row, before, between and after yielded ints.
Three generator objects let a stream go round a cycle of moves, two iterators let one
object have two; objects, addresses and iterators are interchangeable, which the symmetry
of that run uses (it checks safety only). Three bits make the sums of `add_values` wrap
around, in the task and in the tasks inside.

Nobody resumes a coroutine after the owner has destroyed it, so the owner may stop
at any time: the runs of `CoroFrame`, `ThrowingParseInts` and `Maybe` end in states
without a successor and do not check for deadlock. `Task`, `AddValues` and
`UnifiedGenerator` do: their owner can always go on.

### Disagreements between the code and what is written about it

| run | property | what happens |
|---|---|---|
| `frame_bool` | `AwaitRule` | `macros.h:27` negates the result of a `bool` `await_suspend()`: the coroutine suspends when told not to, against `macros.h:7-9`. No awaiter of the repository returns `bool`. |
| `frame_resume_throws` | `NoLeak` | an `await_resume()` that throws, as that of `task_awaiter` does, leaves its awaiter in its buffer (`macros.h:58`). |
| `parse_ints_flags` | `FlagsTrackConstruction` | `__constructed.parsed_` is read before it is written (`throwing_parse_ints.h:53-55`). Harmless for an `int`. |
| `maybe_header` | `SameAsWithoutCoroutine` | the hand-written awaits do not return after `await_suspend()` (`maybe_example.h:83-86`), so an empty optional does not short-circuit. |
| `maybe_holder` | `PointerExists` | `return ret;` is not the only return of `ramp()` (`macros.h:25` has another), so compilers do not construct the holder in place; its move constructor writes through a reference into the promise (`return_object_holder.h:26`), which `with_exceptions()` has freed by then. |

Three more are seen in runs that pass, whose property says what the code does instead:

| run | property | what happens |
|---|---|---|
| `maybe` | `DestroyedOnce` | `delete this` after an explicit destructor call runs the destructor of the promise twice (`coroutine_frame.h:145`, `:156`), in every execution of a frame on the heap; the property says that exactly the promise is. For `task_promise` that destroys an `exception_ptr` and an optional twice. |
| `parse_ints` | `StackFollowsBadStrings` | the body goes on inside the catch clause, one level deeper per caught exception (`coroutine_frame.h:219`), although `throwing_parse_ints.h:174-176` says "from outside any catch handlers"; the property says how deep. |
| `add_values` | `ResultIsSum` | the comment in `task_example.h:48-54` has one addition and `task_example.cpp:8` its result, 14; the code below it (`task_example.h:90-106`) has a loop. The property is about the loop. |

Met while modelling and not given a run of their own:

* `maybe.h:31` and `:34` say that the awaiter is always ready and `await_suspend()` never
  called, while it implements the short-circuit; `destroySuspendedCoro()` in
  `maybe_example.cpp:87-95` has no case for the two awaits, so their awaiter (trivially
  destructible) is not destroyed;
* `string_prepend` never destroys `it_` and `end_`, neither at the end of the loop
  (`string_prepend.h:52`) nor in `destroySuspendedCoro()`, whose comment
  (`string_prepend.h:64-65`) says there are no local variables in scope at the end.
  `HoldsWhatItDestroys` names exactly these two as left behind;
* the comment at `unified_generator.h:261` leaves the clean-up of an inline frame to the
  destructor of its handle, which by `coroutine_handle.h:126-129` does not do it; the code two
  lines above does. Moving the handle copies the frame and leaves the old one as it is,
  so both are destroyed, and assigning over an inline generator destroys nothing
  (`unified_generator.h:246`). `iota_unified()` has no local that would notice; a body
  with a temporary would destroy it twice, or never;
* the deleted `await_transform` of generators (`unified_generator.h:116-118`) is not found by
  the macros, so a `co_await` in a generator is not rejected;
* the inline frame's `handleException()` calls a `dispatchExceptionHandling()` with another
  signature than the heap frame's (`inline_coroutine_frame.h:109-110`). The two optional
  coroutines on the stack have one (`maybe_example.h:111`, `maybe_example.cpp:97`) but
  nothing in their bodies throws;
* a final awaiter that destroys the coroutine would make `unhandled_exception()` report a
  live frame (`coroutine_frame.h:116`).

### Fairness

Everything runs on the thread that called `resume()` or `destroy()`, so a call that
has begun goes on: `ThrowingParseInts` assumes weak fairness of the steps inside
`begin()` and `++`, `AddValues` of everything inside `start()`, `Task` of the trampoline's loop and of a destruction under way. It
also assumes weak fairness of `Finish(p)` for every body, which says that a body does
not make tasks, throw and catch for ever: the library cannot make a user's
body end. `StartedEnds` needs in addition that whoever was given a handle by an
external awaiter resumes it some time, however busy the owner is (strong
fairness of `Event`). `CoroFrame`, `Maybe` and `UnifiedGenerator` are checked for safety
alone; a step of `UnifiedGenerator` is a whole call.

## What is proved

Every proof has the same shape: an inductive invariant `IInv` that says for each place of
control what is alive, or who points to whom; one step per action; the properties as
consequences. None of the safety properties is inductive by itself, because what a
destruction will destroy depends on what the code did when it suspended.

`CoroFrameProofs`, for all sets of awaiters, locals, points and every `LiveAt` within
`KindAssumption` and `BodyAssumption`:

* `Inductive`: `IInv` is an invariant. `TypeCorrect`, `NothingLeaks`, `BuffersSafe`
  and `ResultTrustworthy` follow from it;
* `StaysFinished`: `FinishedStaysFinished`, and `AwaitsByTheRule`: `AwaitRule`;
* `FrameImplementsCoroutine`: the frame implements `Coroutine`, step by step.

All assume `Disciplined`: no awaiter returns `bool` from `await_suspend()`, and in a
frame that may throw no `await_resume()` throws and no final awaiter destroys the
coroutine. Each exclusion is needed; `frame_bool` and `frame_resume_throws` are the
counterexamples without the first two. That a freed frame is empty depends on what was
alive when `destroy()` ran, and `destroy()` consults only `done()` and `suspendIdx_`. So
`IInv` says: a suspended frame holds its promise and exactly what
`destroySuspendedCoro(suspendIdx_)` (or, when done, the final awaiter) will destroy; a
running one its promise and locals but no awaiter; between `handleException()` and the
next step the frame is gone, finished or running, and the result says which.

`TaskProofs`, for any number of frames and awaits: `TargetsReady`, `WakeupsKept`,
`ContinuationsAlive`, `NobodyOrphaned`. That the handle in the loop is ready is known when
it is put there, by a body that ends, from its `continuation_`; so `IInv` ties
`continuation_`, the awaiter in the frame above and ownership together
(`AwaitsArePairs`, `ContinuationsFollowAwaits`, `Owned`): a task that has begun is awaited by
the frame that owns it, hence whatever a body that ends takes with it has not begun or is
done and owns nothing. `DyingIsAPath` does the same for a recursive `destroy()`, in the
middle of which an awaiter may already have lost its task. No acyclicity is needed: the
argument never looks further than one link.

`ThrowingParseIntsProofs`, for ranges of any length and any `Garbage`:

* `EverythingDestroyed`, `NothingDestroyedTwice`: the place of control (`Suspended`,
  `InLoop`, `Ended`) determines which buffers are alive, and the flags, wherever they
  are read to decide something that matters, say the same;
* `StackIsTheBadRun`: the stack of handlers grows with the input and nothing else;
* `LoweringFollowsTheComment`: the refinement to `ParseInts`. It needs
  `Progress`, which says at each place of control which strings since the last int have
  been skipped; the next int is then the `Min(Ints)` of the abstract loop.

`UnifiedGeneratorProofs`, for any number of objects, addresses and iterators and all
streams: `EveryFrameOwnedOnce`, `IteratorsSafe`, `DestructionFits` and
`GeneratorsAreStreams`. `IInv` is `Typed`, `OwnedOnce`, `AllAtRest` (every frame has not begun,
is at an element or is done, and holds what its destruction destroys), `MovedFrom` (a moved-from object
is an inline one that still has its frame) and `~fault`. Ownership is what makes moving a handle, destroying the old frame
and using its address again harmless to the other objects.

`TaskCallsProofs`, for any set of addresses: `TasksAreCalls`, the refinement `AwaitIsACall`. Here
single links no longer do: a call stack is a whole chain of awaits. On top of `IInv` it needs

* `ChainsExist`: there is a function that unfolds every chain of awaits, that is, the awaits have no
  cycle. Since a `CHOOSE` is all that `CallsBelow` is, this is what gives it a value;
* `AwaitsOwned`: who is awaited belongs to the frame that awaits it;
* `Rooted`: a task that has begun and awaits nothing is the top of the stack of a task
  the owner holds, so when control moves it moves to the top of some stack.

The lemmas before it are about chains alone: they are unique (`ChainsUnique`, by
`LeastElement` on their length), two with the same end begin at one root when nobody is awaited twice
(`RootsApart`), and an await adds one element to each chain that ended there while an
end takes it away (`Extend`, `Cut`). Then there is one lemma per action of `Task`, which says which
action of `TaskCalls` it is (`StartBegins`, `AwaitSuspendCalls`, `FinishLeaves`, ...) or that it is none.

`MaybeProofs`, for all arguments: `ResultIsThere` and `TypeCorrect` without any assumption;
`NothingDestroyedTwice` and `ResultIsTheSame` under `HeaderDiscipline` (the awaits of the
header's variant get no empty optional). Without it `maybe_header` is the counterexample to
`SameAsWithoutCoroutine`. `PointerKept` says that the move of the holder finds its pointer when
no function has its frame on the heap; `maybe_holder` is the counterexample with one.
`ResultIsTheSame` rests on a closed form of `ChainedNoCoro`: with an
empty optional among the operands it is empty from the first iteration on, otherwise it is the
number of iterations times their sum; the frame holds that for the iterations it has done.

`AddValuesProofs`, for all arguments and any width: `BuffersAlwaysExact`, `TypeCorrect` and
`SumIsRight`. `Sums` says at each place of control that what `res` holds and what `SumFrom`
has yet to give for the current `a` and `b` make up the whole sum (`SumSoFar`), and that `a < b`
inside the loop, so that `++a` and `--b` stay in `size_t`. That `SumFrom` is a number at all
comes from its closed form (`SumIsTotal`). That `2 ^ Width` is a positive number is part of `WidthAssumption`.

The last two and `TaskCallsProofs` reason about recursive functions. None of the provers can
instantiate an induction theorem, whose parameter is an operator; `LeastNumber` takes
its place: a set of numbers that is not empty has a least element, so the set of
counterexamples, a set like any other, is empty.

Only model-checked: all liveness (`ControlReturns`, `StartedEnds`, `AdvanceReturns`,
`Terminates`), which needs `ENABLED`. Every safety property that a passing run checks is a
theorem, those of `CoroFrame` and `Maybe` under the disciplines above.

## What is not modelled

* `old_files/` is not built and uses macros that no longer exist. The assembly
  experiments, benchmarks, tests and `main` programs only call the components above.
* `type_traits.h` is resolved at compile time: its results are the constants of
  `CoroFrame`.
* The address arithmetic between handle and promise (`promise_offset`), which a
  `static_assert` checks for every frame.
* The exception path of the inline frame: nothing throws in the bodies that have one.
* `ramp()` with a throwing constructor and failing allocation; tasks that are awaited twice,
  or started before they are awaited; generators used past their end: nothing here does
  that, and the hazards say so.
* Integer overflow in the optional examples, shared with the versions without coroutines.
  That of `add_values` is modelled.

## Plan

Modelled first was the frame, because everything else is a client of it; then tasks (the
loop and its continuations), the concrete bodies, and the generator objects. What is
left, in this order:

1. Tasks by clients that do more than those of the repository: a second await of the same
   task, a task started before it is awaited. It needs a decision of the library's
   authors on what these should do; today the second await overwrites `continuation_`.
2. `ramp()` in steps that may fail, once a promise or a frame here has a constructor that
   throws.
3. The safety half of liveness as theorems: a measure that every step inside a call
   decreases (the pairs left in `add_values()`, the frames left in a recursive `destroy()`, the
   strings left in `throwing_parse_ints`).
