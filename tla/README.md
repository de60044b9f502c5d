# A TLA+ verification of FD.io CSIT

CSIT (Continuous System Integration and Testing) tests VPP and DPDK on physical
testbeds and in containers. This directory holds TLA+ models of the parts of CSIT
that carry state over several steps, threads or processes, the TLC configurations
that check them on small instances, and TLAPS proofs for all instances. Paths are
relative to the root of the repository, below `src/`.

| module | models | state |
|---|---|---|
| `TestbedReservation` | `topo_reservation.py`, `reserve_and_cleanup_testbed`, `untrap_and_unreserve_testbed`, `exec_cmd` | checked, proved |
| `TestbedLock` | what the reservation promises (abstract) | refined by the above, proved |
| `MLRsearch` | `MLRsearch/MultipleLossRatioSearch.py` | checked, proved |
| `DeviceReservation` | `device.sh`, `(de)activate_docker_topology` | checked, proved |
| `VfAllocator` | what that reservation promises (abstract) | refined by the above, proved |
| `SSH` | `ssh.py`: the cached connections of one Robot process | checked and proved within `Framework` |
| `Framework` | `SetupFramework.py`, composed with `SSH` | checked, proved |
| `VppApiCrc` | `VppApiCrc.py` as operators on the checker's state | checked and proved within `PapiExecutor` |
| `PapiExecutor` | `PapiExecutor.py` (socket executor), composed with `VppApiCrc` | checked, proved |
| `CommandLog` | what VPP sees of the commands (abstract) | refined by the above, proved |
| `TrafficGenerator` | `TrafficGenerator.py` and the TRex start/stop scripts | checked, proved |
| `TrexProfiles` | the values all 150 TRex traffic profiles assign | checked within `TrafficProfiles` |
| `TrafficProfiles` | the profile base classes and `trex_stl_profile.py` | checked, proved but for the table |
| `InputData` | input of the presentation layer: `input_data_files.py`, `input_data_parser.py` | checked, proved |
| `MC*` | instances for TLC | |
| `*Proofs` | theorems and proofs | |

## 1. Inventory

### Testbed reservation (`resources/tools/scripts/topo_reservation.py`, `resources/libraries/bash/function/common.sh`, `ansible.sh`)
*State:* a directory `/tmp/reservation_dir` on the traffic generator of each testbed,
with files that name the run holding it; in each job the position in its list of
topologies, `WORKING_TOPOLOGY` and the EXIT trap. *Operations:* reserve (`mkdir`, then
`touch` of the run tag), clean and calibrate by ansible, run tests, cancel (`rm -r`).
*Interaction:* jobs on different executors know each other only through the directory;
commands travel over ssh and may be refused, unanswered or executed late. *Hard:* a
reservation made but not reported, a cancellation executed late, a signal or a failing
command between reservation and trap, or in the teardown. *Correct if:* two jobs never
work on one testbed, nobody removes the reservation of another job, a job that ends
gives its testbed back, a waiting job is served.

### MLRsearch (`resources/libraries/python/MLRsearch`)
*State:* an NDR and a PDR interval, each bounded by two measurements (rate, duration,
loss), and the phase. *Operations:* three initial trials; in each phase the loop that
moves invalid bounds, halves wide intervals and measures short-lived bounds again; the
update of both intervals by each trial. *Interaction:* `measure` of the traffic
generator. *Hard:* results of shorter trials that a longer one contradicts, the two
searches disturbing each other, the limits of the rate, termination. *Correct if:* the
rates are allowed ones, intervals stay proper, what is returned is narrow and measured
for the full duration, and the search ends.

### VPP device reservation (`resources/libraries/bash/function/device.sh`)
*State:* where each SR-IOV virtual function (VF) is, the containers of the jobs, a flock,
the lists of device names and PCI addresses of a job. *Operations:* activate (choose VFs,
start containers, move VFs), tests that bind drivers, deactivate (remove containers, bind
VFs to the kernel driver). *Interaction:* all jobs of a server run these functions in one
shim container. *Hard:* the choice is made some commands before the VFs are taken; a
command may fail half-way in both directions; containers may exit by themselves; the trap
of the job is installed after the activation has ended. *Correct if:* jobs never share a
VF, the two sides of a job are wired together, a cleanup touches only the job's own VFs,
a job that ends well gives everything back.

### SSH connections and framework setup (`ssh.py`, `SetupFramework.py`)
*State:* `SSH.__existing_connections`, one paramiko client per node and process; the SSH
objects that hold one; the framework directory and tarball of each node; the list of
results the threads append to. *Operations:* connect, disconnect, reconnect, execute with
a timeout, copy; setup (copy, extract, virtualenv) and cleanup, a thread per node.
*Interaction:* all users of a node share its client; one user's disconnect closes it under
the others. *Hard:* links that break unnoticed, commands that go on after a timeout,
exceptions that nobody expects in a thread. *Correct if:* connections do not pile up, what
setup and cleanup leave has a known cause, all threads are joined.

### PAPI executor and API CRC checker (`PapiExecutor.py`, `VppApiCrc.py`)
*State:* one VPP client for all DUTs (a class field), an ssh tunnel and a temporary
directory per `with` block, the list of commands of an executor, the history; the
collections of checksums still possible, messages found and reported. *Operations:*
create the client (scan of the `.api.json` files), enter and leave a block, add, execute,
reconnect and repeat. *Hard:* a lost reply of an executed command, a block that fails
while being entered, files and commands in any order. *Correct if:* VPP executes what
was added for its DUT, in order, at most twice, and the history tells of it unless told not
to, no unverified command goes untold, a fitting build is accepted, blocks end and leave
nothing behind.

### Traffic generator (`TrafficGenerator.py`, `GPL/tools/trex/*.py`)
*State:* mode, port order and reference counters in the library object; `trex_cfg.yaml`,
the TRex process with its counters and traffic on the TG. *Operations:* initialise and
start TRex (three attempts), synchronous and asynchronous trials, stop, teardown.
*Hard:* a TRex of an earlier start or job, references of an abandoned trial, a failing
test with traffic running. *Correct if:* a result counts its own trial only, ports and
configuration agree (in STL mode), traffic does not reach the next test, starting ends.

### Traffic profiles (`GPL/traffic_profiles/trex`, `trex_stl_profile.py`)
*State:* the streams of each port with their flow variables. *Operations:* load a profile,
build streams for a frame size or mix, cut the list into ports, add latency streams. *Hard:*
150 files of ranges written out by hand whose scale only the file name tells; variables that
step together. *Correct if:* ranges hold what the name says, both directions carry equally
many flows, each port has its own streams of the right size.

### Presentation, input data (`resources/tools/presentation`)
*State:* the data of each build and its state in the specification; what the visitor of
`output.xml` remembers between elements. *Operations:* download from several places with
repetition, unzip, visit suites, tests, keywords and messages, decide whether a build is
outdated, store. *Hard:* ignored tests, tests of the same name, keywords that come twice or
show one DUT only, failing downloads and files in the middle of many. *Correct if:* data is
stored with the test, keyword and build it came from, states tell what is there, reading
ends.

### Not modelled
See section 12.

## 2. Plan

1. `TestbedLock`, `TestbedReservation`: model, run, refinement and proofs **done**.
2. `MLRsearch`: model, run and proofs of all its safety properties **done**.
3. `VfAllocator`, `DeviceReservation`: model, runs, refinement and proofs of all safety
   properties **done**.
4. `SSH` and `Framework`: model, runs and proofs of all their invariants **done**.
5. `CommandLog`, `VppApiCrc` and `PapiExecutor`: model, run, refinement and proofs of all
   their invariants **done**.
6. `TrafficGenerator`: model, run and proofs of all its safety properties **done**.
7. `TrexProfiles`, `TrafficProfiles`: model, run and proof of `PortsLoaded` **done**; the
   rest is checked on the whole table of profiles.
8. `InputData`: model, runs and proofs of all its invariants **done**.
9. Left to prove: nothing that the runs check and a prover without liveness can reach. An
   abstract specification of `Framework` would be the next refinement.
10. Left to model: `DropRateSearch`, the workers of `PLRsearch`, `jumpavg`, `CpuUtils`, the
   life cycles of `ContainerUtils` and `QemuUtils`.

The theorems hold for all values of the constants that the `ASSUME`s of a module admit, and
these ask for no more than sizes that are natural numbers, special values (`None`, `NoJob`)
that differ from the values they stand beside, and what the callers guarantee: a list of
topologies is not empty, a node has a thread, the jobs of a specification are the keys of a
dictionary. `TrafficProfiles` has two without constants, which state facts of the table of
profiles. TLC evaluates each of them in the run of its module.

## 3. TestbedReservation

Each job runs two programs in turn, the bash functions and `topo_reservation.py`; `pc[j]` is
the next command. `dir[t]` is the owner of the directory on testbed `t` (the program does not
store it: `mkdir` and `rm -r` look only at existence), `tags[t]` the run tags in it. A
command without a reply is kept in `late` and may be executed at any time later
(`LateCommand`), as sshd does with a command whose client has gone. `lost[j]` records that
`j` gave up a testbed after a command without a reply. At the `touch` only a timeout does
that; a lost connection (`TouchConnectionLost`) is caught in `exec_cmd`, the job goes on with
its reservation, and the `touch` may still be executed. Every command may be refused or
unanswered, each playbook may fail, a job may be signalled (`Abort`: the EXIT trap runs if
installed) or killed; traffic generators go down and come back. `MaxFaults` bounds these
events.

*Run* `testbed`: two jobs, two testbeds tried in opposite order, two faults; the interesting
combinations (a lost reply and a death, a late command and a new owner) need two. It checks
mutual exclusion, that only the creator removes a reservation, that a run tag names the
holder or a job that is over and has given its testbed back, that every leak has a listed
cause, refinement of `TestbedLock`, and that a job is served as soon as some testbed of its
list stays reachable and is not left reserved by a job that has gone. This last property is
under weak fairness of each job: bash goes on to its next command, commands return or time
out, tests end. Weak fairness is enough: whoever still runs gives its testbed back and ends.

*Proved* in `TestbedReservationProofs`, for any jobs, testbeds, lists and faults. Mutual
exclusion is not inductive: a late `rm` could reach a directory that has a new owner. The
inductive invariant adds that a job at work owns the directory it works on (`Held`), owns it
already between `mkdir` and trap (`JustReserved`), that the trap spans only such states
(`TrapSpan`), and that a late `rm` belongs to a dead job that still owns the directory and
is the only one for it (`LateRm`). A late `touch` has no such tie. `TagsTruthful` follows
it with a second invariant: whoever has sent one to a testbed still holds that testbed or is
over and gave it back (`Named`, `LateTouch`), and how a job ended tells how far it had come
(`Reasons`). `ImplementsLock` maps
`dir` to `holder` and the jobs' positions to `working`. `LeakExplained` needs an account of
every directory a job has made (`Accounted`): it has it in hand, missed a reply
(`LateLost`), or died where no trap was installed or the trap could not finish
(`TrapInstalled`); a step of one job changes nothing in the accounts of the others.

*Finding.* `untrap_and_unreserve_testbed` intends to ignore a failing cleanup, but
`ansible_playbook` ends in `die`, which exits the shell: the testbed stays reserved
(`testbed_cleanup_ignored`). *Observed* as well: for the same reason a failing cleanup
after the reservation ends the job (`common.sh:611`) where the comment at `common.sh:568`
says that it keeps retrying; a timeout of the `touch` (`topo_reservation.py:125`) makes the
script fail although its docstring (line 57) says that step 3 decides; and a `touch` whose
connection is lost may leave its tag in the directory of a later holder, where the docstring
(lines 62-65) promises that the tag identifies the run holding the testbed.

## 4. MLRsearch

Rates are points of a logarithmic grid, in which the code's relative widths add up:
doubling a width is multiplication by 2 (the code uses 1.999 to be safe from rounding),
halving an interval goes to its middle point. Losses are the three classes the code
distinguishes; a duration is the number of the phase that uses it. Recursion of `ndrpdr`
becomes a phase counter, because the calls do nothing but run the phases in order.
`sut` is the system under test, chosen in the initial state: `None` for a noisy one (any
answer to any trial), otherwise fixed rates per duration, not higher for longer trials;
`Steady` if all are the same. The timeout may strike before any trial of a phase.

*Run* `mlr`: two phases before the final one, seven rates, the noisy system and all others
on them. The grid is large enough for steps that are clamped at both ends, for several
halvings and for intervals that are invalidated in every phase. `Terminates` assumes weak
fairness of the search, a sequential program whose trials return; it is claimed for systems
that are not noisy only: a noisy one can be searched until the timeout. `TrialsProgress`
gives the reason: it names a quantity (`Remaining`) that each trial of a phase lowers.

*Proved* in `MLRsearchProofs`, for all constants and whatever the trials report: types
(hence: all rates allowed), proper intervals, and `ResultNarrowed`, the promise of the
search about its result. The inductive invariant adds that the first trial is at the
maximal rate (`LineIsMax`), that the second trial is below it (`SecondBelowFirst`), from
which the starting intervals are proper, and that intervals stay proper in all later
states (`BoundsProper`); `ResultNarrowed` then follows from the guards of the last
`PhaseDone`. The lemmas say what `_new_interval`, the external steps and the bisection
return.

Two more theorems are about what the result means. `ResultBrackets` holds for every system
that is not noisy, because a bound is only as valid as the trial it was measured in and
each bound is a trial the system can have answered that way (`Measured`). `NdrBelowPdr`
holds on a steady system, and is far from inductive, since the trials chosen for one search
update the bounds of the other by another rule. The invariant (`Ordered`) is about the four
rates at once: an interval with a lower bound that loses too much, or an upper one that
loses nothing, is still the interval of both searches, so an invalid bound moves for both;
and the upper bounds are in order too, until the minimal rate itself has losses.

`TrialsProgress` is the safety half of termination: on a system that is not noisy every
trial of a phase lowers `Remaining`, a natural number, so a phase has at most that many
trials, whatever the grid and the goals. `Remaining` adds up, for both intervals, the steps
an invalid bound may still go, the width to be halved and the bounds to be measured again.
The proof has two parts. A trial that changes an interval lowers its cost, in each of the
seven cases of `_new_interval`, and one that does not leaves it (`UpdateCost`); and the
trial the loop chooses does change one of the intervals. The second part is where
it could go wrong, because `_new_interval` ignores results of some rates; it needs to know
how old the bounds can be (`Recent`).

*Observed.* The comment at `MultipleLossRatioSearch.py:594` that PDR bisection cannot
invalidate NDR is right on a steady system and wrong when longer trials lose more: the PDR
interval can be expanded below the NDR lower bound of a shorter trial, and bisected there.
The loop recovers. On such systems the reported NDR may exceed the reported PDR by less
than the final goal; `NdrBelowPdr` is therefore stated for steady systems.

## 5. DeviceReservation

`at[v]` is where VF `v` is: on the host, in the container of a job, bound to a userspace
driver, or unbound. The TG and DUT1 VFs come in pairs; only the TG side is looked for, as
in `get_available_interfaces`, and the PCI address of a DUT1 VF that is not there is the
one `get_pci_addr` had found before. `up[j]` are the running containers. `die` exits the
shell and so frees the flock; the EXIT trap does nothing (see below). Mishaps: any docker,
ip or bind command fails, with or without its effect; the flock times out; containers
exit by themselves and their VFs return to the host (remembered in `exited`); the job is
lost after the activation. Tests bind the VFs of a node in one step, since no other job can
see the difference. Modelled are the flavours that use the shim.

*Run* `device`: three jobs, three pairs, two mishaps. Three pairs are enough for one job at a
time, so the jobs compete, fail for lack of VFs, and overlap where one cleans up or has lost a
container and another one selects. Two jobs whose tests overlap need four pairs: the theorems
are about any number, and the same run with four pairs and one mishap passes as well. Besides
the invariants it checks that `VfAllocator` is refined: VFs are taken one at a time while
nobody keeps them, tests start with both sides of two pairs, and these are kept until the
cleanup or the loss of a container. *Fairness:* weak, of each job's scripts, each of which asks
for the flock at most twice. A `docker rm --force` of a container that does not exist is
taken to fail (`ContainerMissing`), as the Docker versions of the time do.

*Proved* in `DeviceReservationProofs`, for any jobs, pairs and mishaps. The flock covers the
selection only and each job may be given the address of another device, so `ExclusiveVFs`
rests on where the VFs are: the holder of the flock is alone (`Excluded`), all addresses a
job uses are of the four devices it chose (`GivenIsOwn`), what it has moved and whose
containers run is not seen on the host (`MovedAway`), and the sets moved by two jobs are
disjoint (`Apart`). `WiredTogether` adds that a partner which was missing when its address
was read is still missing when it is to be moved (`Missing`, hence `Allocated`): only an
exiting container gives it back without the flock. `NothingLeftBehind` and
`OthersUndisturbed` add that a device off the host has an owner (`Claimed`) and that one a
job does not find in its own containers when it cleans up is in the hands of another one
(`Recovered`).

`AllocatesTheorem` is the refinement. What a job holds is not a variable of the code: it is
read off its position in the script and its containers (`HeldMap`, `PhaseMap`), so that the
exit of a container in the middle of the activation ends the job in the abstract. A step of
one job leaves the map of the others alone (`FrameMap`); a VF that is moved is held by
nobody, by the invariant above; that the four devices make two different pairs needs the
order in which `get_available_interfaces` finds them (`Ordered`).

*Finding.* `clean_environment_on_exit` tests `$?` after `set`, hence always 0; a failed
activation is not cleaned (`device_not_cleaned`). *Observed:* if a job's containers exit
one after the other and another job selects in between, its `DUT1_PCIDEVS` hold a TG
address (`device.sh:427`, against the comment at line 249); in all other cases the missing
partner makes the move fail (`WiredTogether`).

## 6. SSH and Framework

`SSH` has one user per SSH object. `conns[n]` is the client in the cache, `open[n]` the
clients that are really connected, `link[n]` the state of the transport: a broken one is
`stale` until paramiko notices, and an `inactive` one is replaced by the next `connect`. A
call goes through the stages of the code (connect, open a channel, reconnect once, execute,
wait, copy) and ends with an outcome: return code, `RuntimeError`, or an exception that
`exec_cmd_no_error` and `scp_node` let through. A command whose caller timed out stays in
`running` and may still take effect. `Framework` adds the threads of `setup_framework` and
`cleanup_framework`, the files on the nodes, and between them two SSH objects of the main
thread on one DUT: one that is kept (as in `ContainerUtils`) and calls that disconnect.

*Run* `setup`: two nodes, their threads, three calls of the main thread, one fault (a lost
link, a node that goes down, a failing command, a timeout). One fault is what the listed
causes speak of; the threads' interleavings make the rest. *Fairness:* weak, of the main
thread, each thread, each call and of commands on the nodes: threads are scheduled,
timeouts fire. `Ends` says that all threads are joined in the end. The look into the cache,
the connection and its entry in the cache are one step (`Connect`): at any time one thread
only works on a node.

*Proved* in `FrameworkProofs`, for any nodes, threads per node, calls of the main thread and
faults: `OneConnection` (inductive with the types), `ReadyExplained` and `CleanExplained`.
The main thread sees `results` only, so the proofs follow each entry back to the command it
came from: a call is the current work of its thread (`Calls`), the commands on the nodes
are those of the phase (`CommandsOf`, `WorkOfPhase`), none deletes before the cleanup
(`NoEarlyDelete`), an extraction whose thread has given up is on record (`Abandoned`), and
who is through says so (`Reported`). Then a thread that ended well has set up its node
(`SetUp`) or emptied it (`CleanedUp`), whatever abandoned commands still do.

*Finding.* `setup_node` catches `RuntimeError` only, while a lost node raises `IOError` or
`SSHTimeout`; such a thread appends nothing to `results`, and `all(results)` is true. A
failed `tar` is masked by the `;` that joins it to the next command (`setup_reported`).

## 7. VppApiCrc and PapiExecutor

`VppApiCrc` keeps a record with the fields of the checker: collections still expected,
messages missing in them, found and reported. `process_crc` and `check_api_name` are
functions from record to record. `PapiExecutor` runs them: the scan takes the messages of
the build in any order. Commands get numbers in the order of `add`; `log[d]` is what the
VPP of DUT `d` has executed. `add` takes a flag: with `history=False`, which loops over
routes, tunnels and interfaces use for all but a few of their commands, the history does not
tell of the command (`silent`), and VPP executes it all the same. A fault loses the request
or the reply; the code reconnects and repeats once. Tunnels and directories are numbered by
the `with` block.

*Run* `papi`: two DUTs, two commands and their common reply, every build over them against
two collections, checking or only logging, two blocks, two faults. A repetition that fails
too needs both faults. *Fairness:* weak, of the Robot thread, and of tunnels, whose remote
command (`sleep`) ends. Requests are not executed late: both connections of a block go
through one ssh process, which closes them when it ends. The replies are local to an
executor's `_execute`; a new executor starts without any. The executor for statistics and
the reset of the history between tests are not modelled.

*Proved* in `PapiExecutorProofs`, for any DUTs, commands, builds, collections and bounds: all
five invariants of the run. `ExecutedAsRecorded` needs to know which commands still to be
sent the VPP may have executed: none of those in the list (`Queued`), and of those being sent
at most the first one, once, if it is being repeated after an error (`Sending`); every
command to be sent is meant for the DUT the client is connected to and in its history, or
added with `history=False` (`Ready`, `Listed`, `Connected`, `Tunnelled`). `RepliesAreLatest`
needs that no reply is of a command that may yet be executed again (`Replied`).
`FittingBuildAccepted` needs that a fitting collection is never dropped and nothing is
reported for it (`Fitting`), for which every reduction of the collections is looked at;
`UnverifiedTold` that the checker has seen all files when the client exists (`Scanned`) and
that what it keeps quiet about was told (`Raised`). `LeftoversExplained` counts directories
against faults (`Directories`).

`LogsTheorem` is the refinement of `CommandLog`: each VPP executes commands given for its
DUT, recorded or not, in the order of their numbers, once each, or the last one twice in a
row. The only mapped variable that the code does not have is the permission to repeat
(`Repeating`): the executor missed a reply and the last command VPP has executed is the one
it is about to send again. The proof adds to the invariants above that the numbers given,
recorded or not, are below the next one (`Numbered`); that a command sent for the first time
is above all executed ones comes from `Queued` and `Sending`. The listed run checks the
invariant `ExecutedAsRecorded`, which is about the same lists, and not the refinement.

## 8. TrafficGenerator

The library object (`mode`, `reordered`, `xstats`, `result`), the file on the TG (`config`)
and TRex (`trex`, `count`, `traffic`) are apart, because each outlives the others: TRex may
be one of another job or of an earlier start, up or hung. `count` numbers packets by
trial, so that `own`, a history variable, can say what a trial's result should be.
`startup_trex` is kill, start and assert, three times at most. The two profile scripts start
traffic differently: the STL one starts the ports it is given, in that order (`StlTraffic`);
the ASTF one names no ports, and TRex puts clients on its port 0 and servers on port 1
(`AstfTraffic`).

*Run* `tg`: two suites (hence a TRex of the first in the second), three trials, two faults
(a script that fails, TRex that stops answering, a failing test). *Fairness:* weak, of the
sequence of keywords, which goes on until the suites are over. A pkill is assumed to end a
TRex that answers; a hung one may survive.
Clamping of negative losses, rates and L7 figures are not modelled.

*Proved* in `TrafficGeneratorProofs`, for any suites, trials and faults: the two invariants
of the run and the action property `OwnTrial`. The library and the configuration file agree
(`Configured`); a TRex that answers where a trial may run was started by this suite, in its
mode and port order, since any other one was killed or hangs (`Fresh`, with which
`PortsInvariant` is inductive); only a TRex that answers sends (`TrafficNeedsTrex`), and
between tests only after a fault (`Quiet`). `OwnTrial` follows with what the references are
worth: between the snapshot and the stop nothing is counted that is not of the trial
(`References`, `Running`, `Counted`).

*Observed.* After a start with swapped ports the ASTF script prints the references of port
1 first and the stop script applies them to port 0: the figures of single ports are wrong,
only their sum, which `OwnTrial` speaks of, is right. `tx_port` is documented as the
"transmit port for first flow" (`TrafficGenerator.py:645`), which holds for STL
(`PortsInvariant`) but not for ASTF: with interfaces against PCI order `client.start` still
sends the first flow from TRex port 0, the second interface of the suite. An ASTF trial of
one direction that is waited for fails: statistics are asked for p_0 only and then read for
p_1 (`AstfKeyError`); no suite of the repository runs one. A hung TRex satisfies the `pgrep`
of `is_trex_running`.

## 9. TrexProfiles and TrafficProfiles

`TrexProfiles` has one definition per profile file and one operator per family of
`define_packets`. The first arguments of a definition are the figures of the file name
(`named`), the others the values and literals of the class, direction by direction; they are
separate even where they are equal, so that the comparison says something. Fields that stay
constant are left out. `TrafficProfiles` loads a profile, builds its streams as
`create_streams` does, and cuts the list and puts it on one or two ports as `simple_burst`
does. What TRex makes of the flow variables is not a step of the model but the reference of
`Balanced`: `Flows` is the least common multiple of the periods of the variables, a carry
multiplies, a repeatable random variable has the period of its `limit`. Such a variable
(the three `rnd` profiles) draws from its range with repetitions, so fewer different
addresses than the name says may be seen; `AsNamed` demands that range and limit are both
what the name says.

*Run* `profiles`: all profiles, two frame sizes (one below the longest header) and both
mixes, one or two directions, latency streams accepted or refused. Any profile may be used
with two directions (`test_teardown.robot:68-71` does so); direction 1 of a udir profile is
then an Ethernet header without variables, which `Balanced` leaves out (`OneWay`).

*Proved* in `TrafficProfilesProofs`, for every integer frame size and both mixes:
`PortsLoaded`. It needs that streams and ports belong to the profile and frame size of the
same trial (`Loaded`). Of the table the proof uses only `ProfilesAssumption` (header lengths
are natural numbers), a formula without constants that TLC evaluates over all profiles.
`AsNamed` and `Balanced` are about the table alone, which TLC checks completely; a proof
would add no other instance.

*Observed.* `2000u15p` and `4000u15p` lack the last outer port (`OneSessionShort`). The
service chain profiles with an even number of chains send each chain half of the sources. In
profiles whose directions differ by a VLAN tag, frames of fixed size are 4 bytes longer in
direction 1; in udir profiles used with two directions they are 28 bytes shorter. A latency
stream refused on port 1 leaves the one of port 0. In the ASTF base class `_gen_padding`
returns the text of a list, five characters per letter, so padded frames are too long; the
UDP programs set the keepalive of the client twice and never of the server. The docstring of
`2n 1u1p` names port 1028, the code 2048.

## 10. InputData

`job` and `build` are the positions of the two loops of `download_and_parse_data`; an
outdated build ends the inner one. A build goes through download (each source, then
`Repeat` attempts), unzip, parse and store. What no `except` clause fits ends the program
(`Stop`): an archive without the file or a damaged `.gz` of docs.fd.io (`DownloadRaises`), an
MRR or TCP message that does not parse (`TestRaises`), counters that are no JSON
(`RuntimeRaises`), data before the first test (`NoTestYet`). `session.get` has no timeout, so
a silent server stops it as well (`ServerSilent`).

`checker` holds what `ExecutionChecker` remembers between elements: the metadata found, the
type of message it waits for (`_msg_type`), the number of history messages of the keyword
(`_conf_history_lookup_nr`), the number of runtime keywords, the id of the test and the
results. Robot visits suites, tests, keywords and messages in the order of the file; which
element comes next is chosen freely, so keywords without messages, with the message of one
DUT only and with more than two happen. Each entry of a result carries the test, the keyword
and the DUT it was read from, so that the properties can tell whose it is.

*Run* `input_data`: two builds of one job and one of another; up to three tests
(`MaxTests`) of which two share a name and one is ignored; two keywords that are looked into
(`MaxKeywords`) with up to three messages each (`MaxMessages`); two attempts. This is what it
takes to have an ignored test between two others, a keyword broken off by the next one, a
message more than the code reads, and a second build after a failed one. `OneKeyword` says
that entries of different keywords are never mixed, whatever the messages; a counter that is
not reset per keyword breaks it. *Fairness:* weak, of the one process, whose files have an
end. `ReadingEnds` counts an exception and a silent server among the ends: it shows that the
repetitions and the loops end, not that every server answers.

*Proved* in `InputDataProofs`, for any jobs, builds, tests and bounds: all three invariants
of the run. `LeftOut` needs an account of the builds (`Loops`): those ahead of the loops have
no state (`Ahead`), those behind have one, unless they are the outdated end of a job
(`Behind`, `OldOnes`), and a state tells whether the data is there and whose it is (`Stored`,
with `Fresh`: a checker knows the time of its own build only). `OneKeyword` and
`LatestResult` rest on what the checker remembers (`Memory`): it has a result for each test
visited that is not ignored (`Visited`), runtime counters are of tests visited so far
(`Known`), and the next message finds a history that starts over or has the first message of
its own keyword, and counters of its own test from its own keyword only (`Reader`).
`OwnDataTheorem` says that the ignore list is the only way data of one test gets to another:
with an empty list every entry is of the test it is shown with.

*Finding.* `start_test` returns `None` at a test on the list of "TCs to be ignored"
(`input_data_parser.py:300`), and `visit_test` (line 1005) stops at `False` only: the history
of the ignored test replaces that of the test before it, and its runtime counters are
appended to it (`input_ignored`). When there is no test before it, `KeyError` ends the program.

*Observed.* The state of an outdated build is never set, because the loop is left
before `set_input_state`. The status of an NDRPDR test is overwritten when its latency is
parsed. `params.append("type")` changes the list in the specification. `pal.py` asks for a
single attempt (`repeat=1`).

## 11. What the checks do not show

* Liveness (`EveryJobServed`, `Terminates`, `EveryJobEnds`, `Ends`, `BlocksEnd`,
  `StartupEnds`, `ReadingEnds`) is model-checked only: liveness under fairness and `ENABLED`
  are out of the prover's reach; of `Terminates` the decreasing quantity is proved. `AsNamed`
  and `Balanced` are checked only as well (section 9). All other invariants and action
  properties of the passing runs are theorems. Induction over data is out of reach; no module
  uses `RECURSIVE`.
* The proofs assume 2 ^ `Doublings` to be a natural number: the prover does not know `^`.
* The type invariants are theorems and the base of the other proofs; the
  listed runs do not check them.
* What is called *observed* above was met while modelling: it is part of the models or was
  read in the code, and no listed run shows it; the *findings* each have a run.
* Floating point is not modelled: the grid is exact, the code's factor 1.999 and equality
  of rates in `_new_interval` rely on a rate being passed on unchanged.
* ssh, sshd, docker, TRex, VPP and the kernel are modelled from how the code uses them.
* Bounds that cut behaviours: `MaxFaults` in five models, `MaxCalls`, `MaxCommands` and
  `MaxBlocks`, `MaxSuites` and `MaxTrials`, `MaxTests`, `MaxKeywords` and `MaxMessages`.
  No other counter is cut.

## 12. Not modelled

* **Drop rate search** (`DropRateSearch.py`), **jumpavg**, **CPU allocation**
  (`CpuUtils.py`): sequential algorithms, planned.
* **PLRsearch**: worker processes integrate while a trial runs and have to answer in ten
  seconds, planned; the integration itself is real arithmetic.
* **Containers and virtual machines**: life cycles of LXC, Docker and QEMU, planned.
* **Per-patch testing** (`per_patch.sh`): alternating iterations on one testbed; its use of
  the testbed is part of `TestbedReservation`.
* **Interactive terminals** of `ssh.py`, the **statistics executor** of `PapiExecutor.py`,
  local files, filters and merging in the input of the presentation layer.
* Keyword libraries that turn one keyword into one API call or command line
  (`InterfaceUtil.py`, `IPUtil.py`, `IPsecUtil.py`, ...), tables, plots and trending (batch
  formatting of results), robot suites and their generator, ansible and terraform files.
  They keep no state of their own beyond the call.
