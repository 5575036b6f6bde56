# Verification of the DCU data-acquisition process

The repository's program reads electricity meters over DLMS/COSEM and stores what
it reads ("It read datas from meters and store it", `README.md`). This directory
holds TLA+ models of the parts whose correctness depends on the order in which
things happen, TLC configurations that check them on small instances, and TLAPS
proofs of the results that hold for every instance. Paths below are relative to
the repository root; line numbers are those of the modelled commit.

## 1. Inventory

One operating-system process runs per serial port (`g_pidx`, from `argv[1]`), or
one for a PLCC modem. Each is a single thread: `main()` connects to Redis once,
reads its configuration and calls `init_dlms_proc()`, which never returns. The
processes share a Redis server and SQLite files with each other, with the web
interface and the MQTT client that push on-demand commands, with the FTP process
that uploads results, and with a supervisor that restarts a process whose
hanging-check stamp (`send_hanging_check`) is stale.

| component | state | operations | correct when |
|---|---|---|---|
| **On-demand queue** `src/src/redis.c` 2395-2540, 3073-3243, 4523 | list `web_od_command`; locals `num_cmd`, `empty_check`, `od_cmd` | push (external), `process_od_cmd`: LLEN, LINDEX, LRANGE, LREM; `delete_processed_cmd`: LLEN, LINDEX, LPOP | no command lost unseen, none run twice or by the wrong port, each eventually taken |
| **On-demand execution** `redis.c` 3245-4560, `meter_conf_params.c` | `od_cmd`, `curr_nc_idx`, `OD_CMD_RECEIVED` | one branch per `msgType`, `update_cmd_status` | every command gets one final answer; a rejected one leaves no trace |
| **Polling session** `src/src/main.c`, `dlms_rel.c` 1933-2220 | the connection `con`, `curr_nc_idx`, `event_group_active`, `old_ls_flag`, `np_polled_comp`, `init_*_polled_comp`, loop indices | initial poll, `get_old_data`, `get_all_meter_inst_data`, `idle_poll_phase`, `init_dlms`, `dis_connect` | data is read from, and status is booked on, the meter it is asked for; nothing is forgotten |
| **Day walks, calendar** `main.c` 1286-1576, 2100-2285; `redis.c` 3130-3147, 3497-3551; `comm_func.c` 647-670 | a date and a day index per walk | step back, step forward, restart of the search | every day once, none left out |
| **Periodic scheduling** `main.c` 2290-3079 | `*_poll_flag`, `last_*_ret`, `midnight_polled` | due test and poll per data type | each poll runs once per interval, for ever |
| **DLMS link** `src/src/communication.c` 940-1755 | receive buffer, `pos`, `disc_ret`, `g_met_status_flag` | send, receive, resend, SNRM/AARQ, DISC | an answer belongs to its request; status follows the meter |
| **DLMS reads** `dlms_rel.c` | OBIS lists, scalers, entry counts | one function per profile | the requested range is read |
| **PLCC modem** `src/src/plcc_rel.c` | `plcc_modem_info`: nodes, map, `rs_status` | framing, database and network size, reset | node index and serial number agree |
| **Data store** `src/src/sqlitedb_rel.c` | one table per data type, port and meter; on-demand tables | create, insert if absent, `old_data_check`, drop | no row lost or doubled |
| **FTP bookkeeping** `redis.c` 2543-2620, 6670-6830 | `ftp_od_cmd_resp`, `ftp_od_resp_sts` | announce a result, drop its table when uploaded | a table is dropped only after its rows were uploaded |
| **Configuration, reporting** `redis.c` | Redis hashes | copy fields | - |
| **Data retention** `src/src/data_retention.c` | none | delete rows older than a cut-off | - |
| **Table catalogue, presets, logging, vendored code, MDM web server** | - | - | not core logic |

How they interact: the polling session calls `process_od_cmd()` between any two
polls, and that call opens its own association on the same global connection,
changes the same global `curr_nc_idx`, and reads globals the interrupted loop has
set. This is where the single-threaded process behaves like two. The processes
meet in Redis, where only a single command is atomic. Meters answer or not,
commands arrive and the clock moves at any moment; a process may be restarted
between any two steps, and a broken Redis connection is never opened again.

What is hard to test here, at its line, is the `hazards` list of `PROJECT.json`.

## 2. Plan

Most important first. "Done" says what this directory already holds.

1. `OdQueue`: the shared command list, several processes, faults. Done, with proofs.
2. `PollSession`: phases, shared connection, on-demand commands between polls. Done,
   with proofs.
3. `Calendar`, `DayWalks`: the walks over days. Done, with proofs.
4. `DlmsLink`: resends, late answers, the communication status, `disc_ret`. Done, with
   proofs.
5. `PeriodicPoll`: due tests, poll flags, clean-up; liveness of each poll. Done, with
   proofs.
6. `OdResult`: the branches of `process_od_cmd`, the statuses to web and MQTT,
   `OD_CMD_RECEIVED`, on-demand tables, FTP responses and acknowledgements. Done, with
   proofs.
7. `OdService`, the abstract on-demand service, and `OdQueueService`, which says that
   `OdQueue` with one process implements it. Done, with proofs.

Every safety property of a passing run is also a theorem (section 5). What stays to be
done is the branch of `idle_poll_phase` for `idle_poll_starts` and the state of the PLCC
modem's driver (section 6).

Each module has one kind of interleaving: between processes (`OdQueue`), inside one
process (`PollSession`), with the clock (`DayWalks`, `PeriodicPoll`), with the meters
(`DlmsLink`), with the FTP process (`OdResult`). They meet in the on-demand command:
`OdQueue` says which command runs, `PollSession` what it does to the connection,
`DayWalks` which dates it asks for, `OdResult` what is answered and stored. The
request `PollSession` treats as one step is what `DlmsLink` takes apart; the poll it
allows at any turn is what `PeriodicPoll` finds due.

## 3. Modules

### OdQueue (`MCOdQueue`, `OdQueueProofs`)

One action is one Redis command and everything the process does until the next,
because Redis serialises commands and nothing else is atomic. `pc[p]` names the
next command of process `p`:

| pc | action | code |
|---|---|---|
| idle | `StartPass`: LLEN, the loop bound | `process_od_cmd` 3161-3194 |
| lindex | `CheckPort`: LINDEX, own port? (skipped with PLCC, where the index stays -1) | `check_meter_port_id` |
| lrange | `Fetch`: the element now at that index | 3210-3232 |
| lrem | `Remove1`: LREM 1, the first equal element | 3233-3243 |
| execute | `Execute`: look up the meter, run, or reject (a rejection ends the pass) | 3245-4522 |
| llen2, lindex2, lpop | `DeleteStart`, `DeleteScan`, `DeletePop` | `delete_processed_cmd` |

`Submit` is the producer, which pushes at the tail (external). `LoseRedis` sets
`redis->err`, which stays set; `Crash` and `Restart` are the process and its
supervisor (external). The reply of LREM is not looked at, and a command whose meter is "-"
(`NoMeter`) needs no lookup in Redis: if the connection breaks when it is about to be
removed, it is run (`RunBlind`) while it is still on the list. `submitted`, `handled`,
`ran_listed`, `abandoned`, `dropped` are history variables: no guard reads them except for
the bound on pushes.

### OdService, OdQueueService (`OdQueueServiceProofs`)

`OdService` is what those who push commands may rely on: a command the process may run is
taken once and then finished, or forgotten if the process fails. Two of its actions are no
promise but a fact. `RunUntaken`: a command for no meter may run without having been taken,
and so run again. `Discard`: once a command was handled and an equal one waits, any waiting
command may be thrown away, because `delete_processed_cmd` compares the element at one index
and pops the head. `OdQueueService` maps `OdQueue` onto it: `waiting` counts the list,
`holding` is the command between LREM and the end of its execution, `reran` is `ran_listed`,
`lost` is what was abandoned or dropped. `ServiceImplemented` is the abstract specification
under that mapping.

### PollSession (`MCPollSession`, `PollSessionProofs`)

`phase`, `fn`, `day`, `midx` are the loops of `init_dlms_proc` and its callees;
`step` is the next call of the loop body: `pass` and `turn` (on-demand commands,
skipping), `connect` (`init_dlms`), `read`, `disconnect`, and `inst_od`, `inst_poll`
for the nested loop of `get_all_meter_inst_data`. `target` is the meter
`con.settings` addresses. `exchange` records, of the last request, the meter it was
made for, the one addressed, and the one its outcome is booked on. The process is
sequential, so nondeterminism stands only for the environment: which interface is
configured (`meter_inf_type`, chosen in `Init`), which meters answer, which commands
wait, what is due. `ProcessOdCmd` is the effect of `process_od_cmd()` on the session.

`Meters` are the enabled meters. When a periodic poll is due is left open: it may
be due at any turn, which includes every schedule. `Fns` are the poll functions other
than the event categories `Events`; `PollSessionAssumption` keeps the two apart.

### Calendar, DayWalks (`MCDayWalks`, `DayWalksProofs`)

`Calendar` has `days_in_month` as coded (the array is indexed from month 0, the leap
test compares with month 2), `add_one_day`, the step back that `get_old_data` and
`idle_poll_phase` share, and the Gregorian calendar to compare with. `DayWalks` runs
the three walks, with midnights, commands and the switch in Redis in between.
The idle walk keeps `local_copy`, `first_day`, `old_poll_day` and
`missing_old_data_midx` exactly as the code does, including that `local_copy` is
set to yesterday again on each turn as long as `first_day` is 1. `mktime()`
normalises the first step, so that step (`Yesterday`) follows the calendar. Start dates
are those a `time_t` can show, from 1970 on.

### DlmsLink (`MCDlmsLink`, `DlmsLinkProofs`)

One port and its meters, frame by frame. `stage` is the call under way, in the order
`init_dlms`, the polls and `dis_connect` make them (the `ic_` stages are the association of
its own in which `com_updateInvocationCounter` reads the counter of some PLCC meters); `pc`
says whether `readDLMSPacket` has a packet to send or waits; `pos` is its resend counter.

| action | code |
|---|---|
| `InitDlms`, `NamePlateRead`, `DisConnect` | `init_dlms`, `get_name_plate`, `dis_connect` of `dlms_rel.c` |
| `Send`, `SendFails` | the first `sendData` of `readDLMSPacket` |
| `Receive`, `Timeout`, `PortError` | its receive loop with the resends, `communication.c` 1213-1332 |
| `BookAnswer`, `BookNoAnswer`, `MeterCommnStatus` | the event and the status in Redis, `meter_commn_status` |
| `NodeDown` | a poll of a node whose `rs_status` is 0 |

`owed` are answers meters will give and `input` what lies in the input queue, which
`dis_connect` does not flush. A frame that was not asked for by the present packet may be
passed over, be an error, or, if it is a UA of the same meter, be taken for the
answer: which of these is the DLMS library's choice. `meter_commn_status` returns without
writing when Redis is in error, knows no serial number or refuses HSET; that is `taken =
FALSE`, and since no caller looks at the result the event is booked all the same. For a PLCC
manufacturer it does not know `init_dlms` returns 0 without an exchange. `booked` (the meters
whose last status Redis took since their name plate) and `sent` are history.

### PeriodicPoll (`MCPeriodicPoll`, `PeriodicPollProofs`)

One turn of `idle_poll_phase` is a pass over `Steps`: the clean-up test at its head, one
reading of the clock, the midnight window, and the five periodic loops. `age[k]` is
`time - last_k_ret`, `poll_flag[k]` the flag that keeps a poll from being repeated while
it is due. `NotDue`, `AlreadyPolled`, `NoConnection`, `ReadOk` and `ReadFails` are the
paths through each loop, which differ in which of the two they write. The meters of a port
are treated alike and share only the clock, so the module follows one and the others
are `Tick`. On a serial port the instantaneous values are also read along with another type
(`WithInst`); the code does not look at the result and stamps `last_inst_ret` all the same.
`Stamp` does so too, and `WithExtra` notes in the history `unanswered` when that read failed,
as `Missed` does for a category of events. `polled` is an observation; the history `cleaned`
says what the present clean hour saw of `data_cleanup`.

### OdResult (`MCOdResult`, `OdResultProofs`)

What becomes of a command after `OdQueue` took it. `Kind` sorts the branches of
`process_od_cmd` by the calls they make: one read (`ReadOnce`), a load survey by days
(`ReadDay`), all event categories (`ReadCategory`), a parameter, a date or the clock (`Act`
after `InitDlms`), a load switched by message or a call without association (`Act`), and a
`msgType` no branch is for (`Unrecognised`: no status, straight to `delete_processed_cmd`).
`Param` says whether the command has its parameter. Two paths return with
`OD_CMD_RECEIVED` still set: `NoParameter`, and `InvalidDate` for the two commands that parse
a date after it was set. `Reinit` is the `init_dlms` after each day
or category. `Update` is `update_cmd_status`: a text with "SUCCESS" also becomes a
response on `ftp_od_cmd_resp`, cut to `MaxResp` entries; MQTT gets only texts with "SUCCESS"
or "Failed". `Store` puts a row into the on-demand table, which all commands of a type and
meter share. `Upload` is the FTP process (external), `DropTable` and `RemoveAck` the
walk of `check_od_command_resp` over its acknowledgements. That list is shared: `OtherAck`
and `OtherRemoves` put acknowledgements of other ports on it and take them off, and
`SkipAck` is each `continue` that leaves an element there (another port's, no JSON, a failed
LINDEX or `get_manufacturer`). `Poll` is the periodic poll, of
which only rows that land in an on-demand table are followed. `uploaded`, `overlapped`,
`failed`, `vague` and `flag_set_by` are history.

Operators that a comment calls a mutant are small bugs someone could make (or once
made: several are the code as its comments say it was before). They are not part of
any specification; replacing the real operator by one breaks the named property.

## 4. Runs

| run | configuration | shows |
|---|---|---|
| `od_one_port` | `OdOnePort.cfg` | one process, three texts (one for another port, one for no meter), each pushed up to twice, one fault anywhere: `Unshifted`, `Accounted`, `OwnCommandsOnly`, `EventuallyTaken`, and the refinement `ServiceImplemented` |
| `od_two_ports` | `OdTwoPorts.cfg` | two processes, four texts, one not JSON and two that `delete_processed_cmd` takes for copies, one fault: `NoSilentLoss` |
| `session` | `Session.cfg` | two meters on a serial port or two nodes behind a modem, two old days: `RightMeter`, `RightStatus` (PLCC), `InitDataAccounted` (serial), `ReachesIdle` |
| `walks_common_year` | `WalksCommonYear.cfg` | every turn of a month of 2025: `WalksKeepCount`, `OldDaysSearched`, `SearchedAgain` |
| `link_both` | `LinkBoth.cfg` | two meters that answer, answer late or not at all, on both interfaces, with lost statuses and restarts: `StatusFollowsEvents`, `NotCommunicatingEarned`, `CallsReturn` |
| `periodic` | `Periodic.cfg` | instantaneous values, midnight data and events, polls and extra reads that succeed or fail, from any start time: `PolledAgain`, `FreshData`, `CleanedEveryDay` |
| `od_results` | `OdResults.cfg` | any two of nine commands, one per kind of branch, every outcome of every call, other ports' acknowledgements on the list: `WebAnswered`, `MqttAnswered`, `LostOnlyOverlapped`, `PeriodicRowsPlaced`, `AcksConsumed` |

Five runs end with a counterexample, because the code does not do what a comment
or document in it says (`findings` in `PROJECT.json` quotes each):

| run | what happens |
|---|---|
| `od_port_race` | two ports: between LINDEX and LRANGE the other process removes an element, and a command of the other port is run |
| `session_events` | a command for another meter between two event categories of `get_old_data`: the second is read from that meter |
| `periodic_hourly` | an interval of exactly one hour is due at every turn, so no turn arms the midnight poll again: it runs once |
| `od_events_success` | an all-events command ends with the outcome of its last `init_dlms`: SUCCESS although a category failed |
| `od_drop_race` | the acknowledgement of a load survey's first day drops the table with the row of the second, whose response still waits |

Where a property names the configuration it holds under (`RightStatus`: PLCC;
`InitDataAccounted`: serial), the other side is listed in section 6.

### Bounds

- `MaxSubmits`, `MaxFaults` of `OdQueue` bound pushes of one text and faults. Two equal
  pushes are what LREM and `delete_processed_cmd` can confuse; three texts give an element
  before, at and after the index in question; one fault can hit any step. With two
  processes one push per text keeps the state space small: the races need different
  elements, not equal ones. With one process the proofs remove all bounds.
- Two meters: one asked for, one another; the nested loop and the last-meter branch
  both occur. Two old days: a day that is not the last and one that is. The function
  lists contain each kind of neighbour `get_old_data` distinguishes.
- Walks of three days from the second of each month: first day, turn of the month
  and the day after it; three meters of which the middle one is disabled; one
  midnight and one command of up to three days. The calendar itself is proved for
  all dates.
- `MaxFrames` = 2: two answers due or queued at once, an older and a newer one, or one
  of each meter. Resends are not bounded by it: answers beyond it count as lost.
- A day of `periodic` has two hours of four minutes, so that every pair of clock and age
  occurs; intervals divide the hour or the day, like 15, 30 or 60 minutes. `MaxTurn` = 1
  minute lets a turn miss one minute mark, but not a whole interval (see section 6). The
  clean-up window has two minutes, twice a turn: a turn may begin just before it.
- Two commands per behaviour of `od_results`: they can share a table or leave the flag set
  for the other's polls, and a two-day survey alone fills `MaxResp` = 2. Two-day surveys: a
  day with a successor and the last. `MaxOther` = 2: elements of other ports before and
  behind the one looked at. One fault: a failed statement or lookup or a restart.

### Fairness

- `OdQueue`: `WF(ProcessOdCmd(p))`, since `idle_poll_phase` is an endless loop that calls
  it every turn and all its calls return; `WF(Restart(p))`, the supervisor. No fairness
  for producers or faults.
- `PollSession`: `WF(Next)`: one thread, every call on the port and on Redis returns, if
  only after a timeout.
- `DayWalks`, `OdResult`: `WF(Program)`: the same thread. Clock, user, commands, the FTP
  process and restarts need not happen. `SearchedAgain` assumes the search is left
  switched on.
- `DlmsLink`: `WF(Process)`, sending and the receive loop with its timeout. Meters need
  not answer and the caller need not call. `CallsReturn` excepts a meter that announces
  more data after every part, for which the code has no limit.
- `PeriodicPoll`: `WF(Program)`, the loop, and `WF(Tick)`, the clock. Polls need not succeed.

`OdResults.cfg` and the others check deadlock too: none of the models stops.

## 5. Proofs

Every invariant and safety action property of the passing runs is proved for all values of
the constants, from the assumptions named in the modules (`OdQueueAssumption` and so on)
and, where it says so, a hypothesis of the theorem. Few of them are inductive: each
proof goes by an invariant that says why the property holds. A `...Proofs` module has that
invariant in named parts and lemmas for its initial states and its steps, with a case per action.

`ListLemmas` holds what the provers need of LREM, LPOP and LTRIM on sequences: where the
first equal element is (`MinOfNats`), that removing it is removing at an index
(`RemoveFirstIsRemoveAt`), and what the shorter list contains.

### OdQueueProofs: any ports, commands, pushes and faults

- `TypeCorrect`: `TypeOK` is inductive.
- `NothingLostSilently` (`NoSilentLoss`), for any number of processes. LREM takes only what
  is in the process's hands, but it may find the element gone, and LPOP takes whatever is at
  the head. `AllPushed` says what stays true whatever the others do to the list: no
  text waits more often than it was pushed, the text a process has taken less often
  (`PushedFor`), so that the element that made it pop is a copy pushed besides
  (`CopiesPushed`). With that every command keeps a `Fate` at every step.
- `LonePortUnshifted`, `LonePortOwnCommands`: with a single process. `OwnCommandsOnly`
  needs that the command in hand passed the port test, which needs that the index tested is
  still that of the same element. That is `Unshifted`, which is inductive with `TypeOK`, because
  the only others that touch the list push at its tail. This is exactly what fails with two
  processes (`od_port_race`).
- `LonePortAccounted`: pushes equal the sum of all fates, from `Unshifted` (LREM
  removes precisely one element) and counting lemmas on sequences
  (`CountAppend`, `CountRemoveFirst`, `CountTail`). Runs of commands that stay on the list
  are no more than the faults, and only of commands for no meter (`RunsBlindRarely`).

### OdQueueServiceProofs: the refinement

`LonePortServes`: with one process (`SinglePort`) `OdQueue` implements `OdService`. The initial
state maps to the initial state, and `ServiceStep` maps each action to a step of the service
or to none: a push to a push, LREM to the taking of a command, `Execute` to its end, a
fault with a command in hand to its loss or, for no meter, to its end (`Finish`) or to
`RunUntaken`, LPOP to `Discard`. LREM is one taking because the
list has not shifted since LRANGE (`Unshifted`), and LPOP is a `Discard` because the
command in hand was handled and its copy still waits (`Deleting`).

### DayWalksProofs: any date, meters, days, midnights and commands

- `AddOneDayExact`: `add_one_day` is right except on 28 February, 29 and 30 March of leap
  years, and wrong on those.
- `StepBackExact`: the backward step is right except on 1 March and 1 April of leap
  years (years 1901 to 2099 without 2000, where the test on `tm_year`, counted from 1900,
  agrees with the calendar: lemma `TmLeapYear`).
- `WalksTypeCorrect` (`TypeOK`): no walk ever asks for a day that does not exist, in leap years
  either. A walk loses at most a year a step (`WalkDate`), so 255 days stay far from year 0.
- `WalksCountDays` (`WalksKeepCount`) and `SearchCovers` (`OldDaysSearched`), under
  `LeapMarchAvoided`: the days a walk may come to, from `NumOldDays` before a start to
  `MaxMidnights` after it and `OdDays` on from the start of a command, are days on which
  the two theorems above say the step is right. Walks within the common years of
  1901 to 2099 satisfy it, and so do walks in a leap year whose days all lie before
  28 February or after 1 April. `OrdinalNext` (the day number of the next day is one more) turns
  "the calendar's next day" into counting. `OriginPlaced` bounds how far the clock has moved from the start; `PassedLooked`
  says of every day the search has passed that each enabled meter was looked at.

So in leap years the exact extent of the error is known: from 28 February 2024 a walk
goes to 1 March, and back from 1 March to the 28th. `walks_common_year` runs in a common year.

### DlmsLinkProofs: any meters, interfaces and number of frames

- `LinkTypeCorrect` (`TypeOK`): in particular the resend counter never passes four transmissions.
- `StatusAgrees` (`StatusFollowsEvents`): Redis and the event of a meter in `booked` agree. A
  meter gets in with an answer after its name plate (`BookedAfterNamePlate`), since every
  answer writes the status; it drops out when Redis does not take a status that was due, and
  comes back with the next answer. What it does not say: a "Not Communicating" that was lost
  is written again only after the meter has answered (section 6).
- `SilenceEarned` (`NotCommunicatingEarned`): by `ResendsCounted`, while an answer is awaited
  `pos` counts the resends, a DISC has none, and on a serial port each is a transmission.

### PeriodicPollProofs: any interval, day and length of a turn

- `ScheduleTypeCorrect` (`TypeOK`).
- `DataStaysFresh` (`FreshData`), for data whose last read, extra reads included, succeeded,
  and if `Schedulable`: a turn is shorter than an hour; an interval is at least two of its
  units, divides the hour or the day, and is no shorter than two turns and a unit. Midnight
  data every 24 hours and a load survey every 15 minutes satisfy it when a turn takes at
  most 7 minutes, and so does the run's configuration. The invariant `FreshInv` has a case
  for each state of a poll's flag: armed data is younger than its interval and a turn at the
  last reading of the clock; data whose flag is down was read in the unit that is still due,
  so the next reading outside that unit arms it before the next due time. Without the
  hypothesis it is false: `periodic_hourly` is an interval of one unit.
- `CleanupOnceADay` (`CleanedEveryDay`), if the port's window takes two of the longest turns:
  by `CleanInv`, a turn whose head looks at the clock in the window clears the flag, and a
  turn that began before the window ends early enough for another head in it. The code's
  window has three minutes, so the hypothesis asks for turns of one minute.

### OdResultProofs: any commands, days, categories, trims and faults

- `ResultTypeCorrect` (`TypeOK`).
- `WebCommandsAnswered`, `MqttCommandsAnswered` (`WebAnswered`, `MqttAnswered`): with `PartsReported`,
  that only load surveys and all-events commands set up the association again between
  parts, and that a survey asked for by MQTT has by then reported a day.
- `OnlyOverlappedLost` (`LostOnlyOverlapped`): from `AcksCover`: each row of a table whose
  acknowledgement waits was uploaded, or stored while the upload was under way.
- `PeriodicRowsKeepPlace` (`PeriodicRowsPlaced`): from `FlagExplained`: outside the
  branches that set `OD_CMD_RECEIVED` themselves, it is set only if a command without its
  value, or with a date that is none, left it so.

### PollSessionProofs: any meters, days, lists of poll functions, answers and commands

- `SessionTypeCorrect` (`TypeOK`): the loop indices stay in the tables they index.
- `SeparateEventsReadRightMeter` (`RightMeter`), if on a serial port no event category follows
  another in `StorePoll` (`SeparateEvents`). `GroupInv` says what `get_old_data` does
  while it keeps the association of an event category, `AddressInv` that a poll function
  about to read has the meter of its loop addressed.
  The code's own list has several categories in a row; there the property is false, which
  `session_events` shows. The theorem says that this is the only way it fails.
- `NodeStatusRight` (`RightStatus`, PLCC): from `BookedInv`: `init_dlms` writes `curr_nc_idx` again
  after anything that may have changed it.
- `InitialDataAccounted` (`InitDataAccounted`, serial): from `AccountInv`, which adds to it
  the meter whose turn is not over while the instantaneous data of all meters is read.

### Only model-checked

Every liveness property: `EventuallyTaken`, `ReachesIdle`, `SearchedAgain`, `CallsReturn`,
`PolledAgain`, `AcksConsumed`. Fairness and ENABLED are beyond the prover.
`AcksConsumed` and `ReachesIdle` would also need induction over the length of a list and over the loops.

## 6. Assumptions and what is not modelled

Assumed of the surroundings:

- Redis executes its commands atomically and keeps its lists across a client's crash.
- Producers push at the tail of `web_od_command`; they are not in this repository. If
  they pushed at the head, `Unshifted` would not hold.
- The supervisor restarts a process that stops stamping; it is external too.
- The FTP process takes the oldest response, uploads the whole table it names and
  acknowledges once, at the tail of the list. It is external; `LostOnlyOverlapped` rests on this.
- `OdResult` has the statuses of one command arrive: that the Redis connection fails
  between two of them is in `OdQueue` only.

Excluded by a bound or an assumption, because the code does something else there:

- `PeriodicPollAssumption`: an interval below its unit (a minute, an hour) makes the divisor
  of the due test zero.
- `MaxTurn`: when a turn takes as long as an interval, the age test is true at every
  reading of the clock and the poll is never armed again. An interval of less than two
  units (for the hourly types 60 to 119 minutes) has the divisor 1 and is due at every
  turn, with the same effect (`periodic_hourly`).
- `OdResultAssumption`: a load survey of zero days. Its branch reads nothing and reports nothing.
- `OdResult`'s acknowledgements name one of the four table types. For others `datatype` is
  uninitialised in `check_od_command_resp` (`redis.c` 6736).

Known behaviour that no run singles out:

- `delete_processed_cmd` compares the element at an index and pops the head
  (`redis.c` 2501). `Discard` of `OdService` says so.
- With PLCC no command is ever taken: the index stays -1 (`redis.c` 3203).
- A command for meter "-" whose LREM fails runs and stays on the list, and runs again after
  the restart (`redis.c` 3236, 3405). Two processes that fetched the same element both run it.
- A status that Redis does not take is not written again by itself: a lost "Communicating"
  is made up for by the next answer, a lost "Not Communicating" not before the meter answered
  (`communication.c` 1249-1270).
- For a PLCC manufacturer it does not know `init_dlms` returns 0 without an exchange
  (`dlms_rel.c` 2222); `PollSession` counts that as a connection.
- The extra `get_inst_data` after another poll is stamped though it failed (`main.c` 2622):
  the data is then due only an interval later.
- A turn longer than half the port's clean-up window may skip the day's clean-up (`main.c`
  1674). The windows of neighbouring ports share a minute: they begin `data_clean_min` apart, not 3
  minutes as the comment says (`main.c` 1670).
- On a serial port `get_all_meter_inst_data` books a meter's status on the meter of the
  last command (`main.c` 796); hence `RightStatus` speaks of PLCC only.
- After a failed connect an OD_LS_DATA command tests the presence of a date it was not
  asked for, since `old_ls_flag` is still set (`dlms_rel.c` 3823).
- With PLCC the frame is in `plcc_data`, but a resend sends `send_data`, of size 0
  (`communication.c` 1293): the resends of `DlmsLink` put nothing on the wire there.
- A PLCC node that is down in the initial poll is skipped without a note, so its
  first-time data is not made up for (`main.c` 978); hence `InitDataAccounted` is a
  property of serial ports.
- When midnight passes while the idle search is on its first day, the meters already
  visited miss one day of that round; `OldDaysSearched` states what does hold.
- `midnight_polled` is never cleared (`main.c` 2380): the midnight window works once.

Not modelled:

- The branch of `idle_poll_phase` for a configured `idle_poll_starts` list (`main.c`
  1713-1935), which repeats the loops with due tests of its own and stamps
  `last_inst_ret` with the index of no meter (1836); code between `#if 0` and `#endif`.
- Framing, checksums and start-up of the PLCC modem; opening of ports and TCP
  connections; what the DLMS library makes of the bytes of a frame.
- Meter data, OBIS codes, scalers, SQL and JSON texts: a command is a value with a port,
  a key and a kind of branch, a row a value with its command and day.
- The components with status `not_modelled` in `PROJECT.json`. They have no control of
  their own (configuration, reporting, retention, catalogue, parameter writes), are
  third-party code, among it SQLite with more than four fifths of the repository's lines, or
  belong to another program.
