# Gclock in TLA+

Specifications of the Gclock firmware (an ESP32 clock with an LVGL screen, a
knob, an LED ring, Wi-Fi and a file server), the TLC configurations that check
them, and TLAPS proofs. Paths below are relative to `src/`.

## 1. Inventory of the system

| part | state | operations | hard behaviour | what makes it correct |
|---|---|---|---|---|
| list library, `components/lv_app/pagemanager/node.h` | `owner`/`prev`/`next` in every item, `len` and `root` in every list | add, delete, take, get, walk | an item in two rings; a delete through the wrong list; a 16-bit length that also decides emptiness | rings stay rings; calls act as on sequences |
| page manager, `pagemanager/page_manager.c`, `pm_anim.c` | three lists, status, `pageTop`, `pageWillDisappear`, `release`, timeline; each page's `obj` | register, push, pop, replace, backstage, back home, `pm_run` | timed transitions during which callbacks may call again; objects released or hidden when a transition ends; loops that relink what they walk | lists and screen objects agree; one page shows; every transition and loop ends |
| client and GUI thread, `pages/pages.c`, `lv_app.c` | the timer's `count` | `pages_init`, `timer_cb`, the loop of `gui_thread` | calls dropped because a transition runs | the screen keeps alternating |
| page contents, `pages/page_*.c` | on the main page: a GIF, its timer, a position in the directory | `onCreate`, `onRelease`, `change_img`, `scan_gif` | the directory changes under the scan; timer, image and page are deleted by different functions | every GIF has its turn; no timer outlives its page |
| Wi-Fi, `components/pal/wifi/wifi.c` | state, event group, configuration in RAM and flash, smartconfig task | event handler, smartconfig start and abort, NVS | three tasks without a lock; a null task handle; restarts | state follows the link; no retry is lost; a saved pair is found again |
| HTTP server, `components/app/server/http/http_server.c` | `running`, handle | poll loop | start may fail; stop waits; short disconnections | one server, there while connected |
| file service, `http/service/file_service.c` | open file, buffer, the card | upload, download, delete, listing | timeouts, failed writes, broken connections, power cuts | a file is complete or gone; nothing is left open |
| knob and button, `components/pal/knob/dev_knob.c`, `3rd/knob`, `3rd/button` | debouncers, state machines, event bits | two timer handlers, callbacks, `dev_knob_read` | bounce; bits are read and cleared by another task | no detent is lost or invented |
| LVGL port, `lv_app/lv_port.c` | draw buffers, key state | `knob_read`, flush, tick | bits instead of counts; buffer hand-off to the LCD driver | turns and presses arrive |
| LED ring, `components/pal/apa102/` | frame buffer, index | scroll, write | wrap of the index | follows the knob |
| battery, `components/pal/bat/battery.c` | level, stability counter, `updateADC` | ADC callback, 50 ms scan | flag shared with an interrupt; narrowing; wrap | the level changes only when stable, and then it does |
| device registry, `components/pal/pal_driver.c` | `devList`, mutexes | register, open, read, write, fcntl | one mutex per device | calls of one device exclude each other |
| the rest (LCD panel, SD card driver, speaker, I2C, start-up, drivers that are not built, fonts, icons, vendored code) | | | | section 7 |

How the parts interact: `gui_thread` owns LVGL and the page manager and calls,
every 10 ms, `lv_task_handler` (LVGL timers such as `timer_cb` and the main
page's, animations, input) and then `pm_run`. The page manager calls the pages'
callbacks and puts animations on an LVGL timeline. The timers of knob and button
set event group bits, which `knob_read` takes in `gui_thread`. The Wi-Fi event
handler and `smartconfig_task` share `s_wifiCtrl`; the HTTP server task polls
`wifi_is_connected`; the web server runs the file service in a task of its own,
on the directory from which the main page takes its GIFs.

## 2. Modules

| module | what it is |
|---|---|
| `NodeHeap` | the functions of `node.h` as operators on a heap of cells, walks, and what a well-formed heap is |
| `NodeList` | these operators as a state machine, one action per function |
| `Lists` | abstract specification: each list is a sequence |
| `PageManager` | the page manager on `NodeHeap` |
| `PageNavigation` | abstract specification: a stack, a set of parked pages, a set of pages that are off |
| `PagesApp` | the program of `pages.c` as the only client of `PageManager` |
| `Wifi` | the station: event handler, smartconfig, flash, and the radio and phone around them |
| `HttpServer` | the task that starts and stops the web server |
| `Network` | `Wifi` and `HttpServer` composed, with start-up, panic and power cuts |
| `Disk` | the directory entries of the SD card, shared by the next two |
| `FileService` | the handlers of the web server |
| `Gallery` | the GIF rotation of the main page |
| `FileStore` | abstract specification: files that come whole and go whole |
| `Storage` | `FileService` and `Gallery` composed on one card, with power cuts |
| `Knob`, `Button` | the encoder and the push button, each with its debouncer and state machine |
| `Input` | knob, button, event bits, `knob_read` and the index of the lit LED composed |
| `Battery` | the gauge and the interrupt it races with |
| `MC...` | instances for TLC |
| `...Proofs` | lemmas and theorems |

Definitions under a comment that begins with "Slip" are variants of the
definition that follows, with a mistake one could make in the code. No
specification uses them; `PROJECT.json` pairs each with the property that
notices it.

**NodeHeap.** A cell is an item or the `root` of a list. The heap records
`owner`, `prev` and `next` for all cells, so an operation on an item that is
still linked elsewhere does exactly what the C code does, including ruining the
other list. `WalkResult` says how a `__list_for_each` search ends on any heap: it
finds the name, returns to the root, follows a null pointer, or never ends. It
is written as a least set, and `Contents` as the one sequence that reads a ring
in order, neither by recursion, so both can be reasoned about for every heap. `len` wraps at `LenMod`; `LenAssumption` (fewer items than values) is
true of 2^16 values and the memory of the device.

**NodeList** implements `Lists` in two senses that `ImplementsLists` joins: every
step is a step of `Lists`, and every function acts as its own namesake there, so
that adding at the head cannot pass for adding at the tail.

**PageManager.** An action is a whole call, because everything runs in
`gui_thread`; `pm_stack_back_home_page` alone is taken one iteration at a time,
so that ending is a property and not an assumption. Correspondence:

| code | model |
|---|---|
| `pm_ctrl.pagePool`, `pageStack`, `pageBackstage` | rings `Pool`, `Stack`, `Backstage` in `heap` |
| `pm_ctrl.status` | `status`; START and DONE are passed within a call |
| `pm_ctrl.timeline != NULL` | `timeline` |
| `pageTop`, `pageWillDisappear`, `release` | the same |
| `page->obj != NULL`, `onCreate` over a live object | `obj`, `lost` |
| hidden flag, position, opacity, size of an object | `look`: the marks that keep the page from being seen as laid out |
| animations on the timeline | `motion`: object, mark, whether the mark stays |
| `pNode` and `animType` of the home loops | `cursor`, `style`, with `pc` |
| an endless walk, a null pointer | `fault`, after which nothing happens |

Pages stand for their names, taken distinct. Styles that differ only in
direction are one style, except bottom to top, which push gives other end
points. Time is abstract: `AnimLastFrame` is LVGL's last frame of the
animations and `PmRun` the end of the transition, 50 ms later. With `LoopKeepsUp`
the frame comes first, as it does while the loop is not delayed by more than
50 ms; without it the order is free.

`HasAppearing`, `HasDisappearing` and `HasRelease` say which callbacks pages have,
`Styles` what clients pass, `PushRestores` whether clients push parked pages.

**PageNavigation** is implemented with a refinement mapping that reads the rings
as sequence and sets (`Navigation` in `PageManager`). A page released at the end
of a transition is `leaving` there although the code has put it in the pool. It
states what may happen, without fairness; that transitions end is `TransitionsEnd`.

**PagesApp** adds `timer_cb`'s counter and the progress of `pages_init`. It sets
`PushRestores`, because `timer_cb` parks page1 and pushes it again.

**Wifi.** The event handler runs in the event loop's task and is cut in two where
another task sees the cut: the first half takes the event, calls the driver and
changes the event bits, `Finish` sets `state` or writes flash. `smartconfig_task` is
`TaskStarts`, `TaskWakes`, `TaskGoesOn`. Its handle is null for ever (`xTaskCreate` is
given the value, `wifi.c:257`), so the call of `wifi_smart_cfg_abort` that finds
`WIFI_STATE_SMARTCFG` dereferences null: `AbortPanics`, which in `Network` restarts
the chip. Whether the task wakes before or after `Finish` decides which happens.
`nvs` survives `Panic` and `PowerCut`, everything else is reset.

| code | model |
|---|---|
| `s_wifiCtrl.state`, `wifiConfig`, `wifi_event_group` | `state`, `wifiConfig`, `bits` |
| `uxBits` of `smartconfig_task` | `woken` |
| a call of `event_handler` between its halves | `handler` |
| the default event loop | `queue`; `QueueShort` proves two places suffice |
| the driver, smartconfig's phone, NVS | `link`; `phone`, `offered`; `nvs` |

**HttpServer.** One look of the poll decides (`Poll`), and `Started` or `Stopped`
follow later, when the connection may have changed. A failed `httpd_start` sets
`running` as well (`http_server.c:69`). `httpd_stop` waits for `busy`, the request
that is being handled.

**FileService, Disk.** A handler goes on piece by piece, since it waits for its
client between pieces. A piece is what one turn of the loop receives, writes or
sends. Each of the turns may time out, find the connection broken (`peer`), or
fail to write. `fd` and `buf` are what the handler has to give back. A directory
entry has its length once the file is closed, and `whole` remembers whether all
that was announced was written, which no request can see. `ImplementsStore` maps
the entries to "absent", "whole" and "broken" of `FileStore` and a handler that is
at work to nothing: uploads happen at the response.

**Gallery.** `scan_gif` is one action per directory entry, so that uploads and
deletions of the other task fall between two entries; its static `idx` and the
count it is compared with are `idx` and `count`.

**Knob, Button, Input.** The contacts follow quadrature: `pos` is the shaft, `level`
what the debouncer believes. `knob_handler` and `button_handler` are one action
each, for every outcome of the sample; callbacks run within them, as in the code.
`knob_read` is one action, because the read of the bits is atomic and nothing else
runs in `gui_thread`. `net`, `turns` and `hurried` are history: how far the shaft has
turned, what was reported, and whether a turn met an unread one or a long press.

**Battery.** `Converts` is the interrupt, and `bat_adc_scan` is cut after its read
(`ScanReads`), as `updateADC` is cleared only then. `streak` is history: readings of
one level in a row.

## 3. Runs

| run | configuration | question |
|---|---|---|
| `list_library` | `MCNodeList.cfg` | Is every sequence of list calls well formed and equal to calls on sequences? Four items, two lists, five length values: rings of length 0 to 4, deletes through the wrong list, both ends. |
| `page_manager` | `MCPageManager.cfg` | All properties of the page manager. Three pages: with both callbacks, with `onAppearing` alone, with neither; a stack of three is the least with a middle to discard. Styles that leave no permanent trace (over, push, fade in), so that full view is the right demand. |
| `page_styles` | `MCPageManagerStyles.cfg` | Every style, `PM_ANIM_NONE` included, a page with both transition callbacks and no `onRelease` beside one with `onRelease` alone, and a late `gui_thread`: the thread stops only where `StopsAsKnown` says, and only the top shows. (`AnimatedObjectsLive` is proved for every style.) |
| `pages_client` | `MCPagesApp.cfg` | The shipped program, run past the wrap of lengths (8 values for 65536) and of the counter (4 for 256). |
| `network` | `MCNetwork.cfg` | Station and web server, with one pair the access point accepts and one it does not, any losses, failed starts, panics and power cuts. |
| `smartconfig_announced` | `MCNetworkSmartconfig.cfg` | Finding, section 4: the same instance and fairness. |
| `storage` | `MCStorage.cfg` | Handlers and GIF rotation on one card: two GIFs with a directory behind them, contents of two and three pieces. Three is above `MAX_FILE_SIZE` and above what the gallery shows, so both limits are met and passed. |
| `input` | `MCInput.cfg` | Knob and button at the shipped debounce of two samples, the count from -2 to 2, a ring of three LEDs, at most two detents away from the start in either direction, short and long presses of one tick with a tick counter of three values. |
| `battery` | `MCBattery.cfg` | Four readings: 3.0 V (below the scale), two that both mean 3.7 V, 6.0 V (narrowed). Filter of three readings, pool of two frames, counter of five values instead of 65536. |
| `push_parked`, `home_hidden`, `push_unknown` | `MCPageManagerRestore.cfg`, `...Home.cfg`, `...NotFound.cfg` | Findings, section 4. |

Bounds: the state spaces are finite without state constraints. The bounds are
the constants above; `NetBound` alone restricts what the world does, and a count
limit of 2 lets the counter start over within it. No symmetry is used.
`page_styles` and the findings on the page manager switch the deadlock check off,
as their subject is a program that may stop; all other runs check it.

Fairness:
- *Page manager.* `gui_thread` repeats `lv_task_handler` and `pm_run` for ever:
  weak fairness of `AnimLastFrame` and `PmRun`; a call that has begun continues:
  of the home loop's steps. Clients owe nothing. The LVGL timer is periodic: weak
  fairness of `TimerCb`, whatever transitions its calls meet.
- *Network.* Weak fairness of start-up, the event handler, `smartconfig_task`, the
  poll, a panic (the chip restarts by itself) and the end of requests. Strong
  fairness of `JoinSucceeds`: an access point that accepts the pair lets in a
  station that keeps trying. Nothing is owed by the phone, by losses or by the
  power supply; `Reconnects` and `ServerFollows` assume that power stays on in the end
  (`PowerStays`).
- *Storage.* Weak fairness of a handler's turns: a connected client sends, or its
  connection breaks. The code has no bound on the number of timeouts, so a client
  that stays connected and silent for ever would keep the only handler; it is
  excluded by this assumption. Weak fairness of the page's timer and of its scan.
- *Input.* The button's timer and LVGL's input timer are periodic. The knob has
  no liveness property and no fairness.
- *Battery.* The ADC converts and the timer scans for ever.

Properties worth a reader's time:
- `ListsWellFormed`: three disjoint rings with exact lengths after any calls.
- `ObjectsFollowLists`: a page has an object exactly while it is on the stack,
  parked, or going; none is created over a live one.
- `AnimatedObjectsLive`: nothing a timeline moves is deleted under it.
- `OnlyTopShows`, `EnteredPageShown`: between transitions the top page alone can
  show, and one that came in does show.
- `StopsAsKnown`: whatever pages, callbacks and styles there are, a client that does
  not push parked pages stops the thread at two null pointers only: the timeline
  of an unknown style with a transition callback, and a missing `onRelease` on the
  way home. No walk hangs, and no page is gone when a transition comes to hide it.
- `HomeReached`, `HomeAdvances`, `HomeReturns`, `TransitionsEnd`: what going home
  leaves; that each iteration of its loops, which take apart the rings they
  walk, leaves fewer to come; that it and every transition end.
- `Alternates`, `OneClock`: the shipped program shows and hides its one page for
  ever and never makes a second object.
- `StateTracksLink`: once its events are handled, the state is the link's, and an
  idle station has smartconfig listening.
- `OnlineIsSaved`: the pair is in flash before an address or a panic comes (if flash
  takes it, section 7).
- `Reconnects`: with the right pair saved, the device is online again and again.
- `OneServer`, `ServerFollows`: no server is lost or doubled by short
  disconnections and failed starts, and it follows the connection.
- `FailedStartHeals`: `running` is true after a failed start too; losses that the
  poll sees set it right, so that it means a server again.
- `ImplementsStore`: no request changes a file in place, failed ones change
  nothing, and a broken file needs a power cut or a card that was full at close.
- `NothingLeaks`, `HandlersEnd`: files, buffers, timers are given back, requests end.
- `ShowsEveryGif`: however the directory changed during scans, every GIF is shown
  again and again once it rests.
- `DetentsCounted`: at rest the events add up to the detents passed, whatever
  bounced or turned back half way.
- `NothingMissed`, `LongPressShows`: the ring follows the knob unless turns are
  hurried; a long press shows and ends, and the button's machine comes to rest.
- `LevelFiltered`, `SteadyShown`: the level changes only after a full filter, and a
  steady voltage is shown in the end although flags are lost to the race.

## 4. Findings

- **Parked pages stay in the backstage when pushed** (`page_manager.c:333`).
  `pm_stack_push_page` deletes a page it found in the backstage from the pool.
  The owner differs, so nothing is deleted, and the page is linked into the
  stack while the backstage still points to it. `push_parked` reaches a search that never
  returns. `pages_client` shows that the shipped program is spared: it parks and
  pushes one page only, which its walks meet before they go astray.
- **Going home ends on a hidden page** (`page_manager.c:632`). The home page was
  hidden when it was covered, and nothing shows it again.
- **`PM_ERR_NOT_FOUND` is `PM_ERR_OK`** (`page_manager.h:10-12`): the enumerator
  after `PM_ERR_FAIL = -1` is 0, so pushing an unknown page looks like success.
- **Smartconfig does not come after 10 s** (`wifi.c:91`, `:108`). The comments say `if
  wifi no connected, smartconfig will be actived in 10s`, but the timer that would
  do it is neither created (`:286`) nor started (`:92-93`, `:109-112`): both are
  commented out. Smartconfig runs only on a device without a pair, so one with a
  wrong pair retries for ever. `SmartconfigActivated` asks for less than the
  comments, that smartconfig comes eventually unless the station connects or is
  switched off, and fails all the same.

Behaviour the models settled that has no run of its own:

- The first configuration of a device ends in a panic or not, depending on
  whether `smartconfig_task` wakes before the event handler has set the state. The
  pair is in flash by then, so the restart uses it.
- A failed `httpd_start` is not tried again while the connection lasts.
- Bottom to top pushes the first page of the stack off the screen
  (`page_manager.c:373-374`: from 0 to the vertical resolution); replace has the end
  points the other way round (`:561-562`). With that style in `Styles`,
  `EnteredPageShown` is violated by the first push.
- The results of `fclose` and `unlink` are not looked at: a file that was cut short
  on a full card is reported as uploaded, and a refused deletion as done.
- A press that follows a click within 180 ms is never recognised as long. Turns
  that meet an unread one, or a long press, are lost.
- The battery level is a byte: above 5760 mV it starts over at 0. The first level
  after a start is a share of 4200 mV, all others of the range from 3200 mV.
- `3rd/button/Kconfig:12` allows a debounce of 8 samples, and
  `3rd/button/iot_button.c:55` calls it the maximum, but the counter has three bits
  (`:36`) and never reaches it: such a button is never noticed. The shipped value is 2.

## 5. Proofs

Proved for all values of the constants, from the named assumptions of the
modules:

| module | theorems |
|---|---|
| `NodeListProofs` | `NodeListTypeOK`, `NodeListWellFormed`, `NodeListImplementsLists` |
| `PageManagerProofs`, under `~ PushRestores` | `PageManagerTypeOK`, `PageManagerListsWellFormed`, `PageManagerTopIsTail`, `PageManagerAnimatedObjectsLive`, `PageManagerOnlyTopShows`, `PageManagerImplementsNavigation`, `PageManagerOperationsActAsNamed`, `PageManagerHomeAdvances`, `PageManagerStopsAsKnown` |
| the same, under `Supported` | `PageManagerNeverStops`, `PageManagerObjectsFollowLists`, `PageManagerHomeReached` |
| the same, under `Traceless` | `PageManagerEnteredPageShown` |
| `PagesAppProofs` | `PagesAppTypeOK`, `PagesAppNeverStops`, `PagesAppOneClock` |
| `NetworkProofs` | `NetworkTypeOK`, `NetworkStateTracksLink`, `NetworkOnlineIsSaved`, `NetworkOneServer` |
| `StorageProofs` | `StorageTypeOK`, `StorageNothingLeaks`, `StorageImplementsStore` |
| `InputProofs` | `InputTypeOK`, `InputDetentsCounted`, `InputNothingMissed` |
| `BatteryProofs` | `BatteryTypeOK`, `BatteryLevelFiltered` |

`Supported`: the client does not push parked pages, every page has `onRelease`, and
`PM_ANIM_NONE` is not used on pages with transition callbacks. `Traceless`: it does
not push parked pages, uses the styles over, push, fade in or none, and `gui_thread`
keeps up. The hypotheses are needed: the finding on parked pages breaks the
first, the code dereferences null pointers outside the second
(`page_manager.c:600` calls `onRelease` unasked; `:197-208` asks a deleted timeline
for its playtime), and other styles leave a page moved or scaled by design.

**Lists.** `NodeHeapProofs` shows that adding a free item, unlinking an item
and their composition keep `WellFormed`. Links and lengths are first-order facts;
connectedness (`RingsConnected`) uses that walks are least closed sets: a set
closed for the new ring, with the item put in or taken out, is closed for the
old one. `WalkFindsMembers` then turns a search into a question about owners.

For the refinement, `OInv` adds `Ordered`: every ring has a ring order, a sequence
of its members, each once, that follows `next` from the root and back.
`RingOrdersAgree` shows there is only one: the members on which two orders agree
are closed under `next`, hence all a walk meets, hence all. So a lemma that turns
an order of the old ring into one of the new ring says what `Contents` becomes:
`AddTailContents` (append), `AddHeadContents` (prepend), `UnlinkedContents` (one element
removed, the rest in order). Induction over the sequence is nowhere needed.
`NodeListImplementsLists` then goes function by function.

**Page manager.** `PageManagerProofs` strengthens the properties to the inductive
`IInv`: `TypeOK`, `ListsWellFormed`, `TopIsTail`, `AnimatedObjectsLive`, and
`TransitionKept` (there is a timeline exactly in RUNNING; in IDLE no page is to
go or to be released; a page to go has an object, and is in the pool if it is to
be released), `ListedHaveObjects` (pages of stack and backstage have objects), `OthersHidden`
(what makes `OnlyTopShows` inductive through a transition) and `LoopInList` (the
cursor of the home loop is in the ring it walks). None of the properties is
inductive alone: that pop removes the tail needs `TopIsTail`, which needs
well-formed rings, which need the cursor in its ring. `SInv` adds the two
properties under `Supported`. `StopsAsKnown` needs no more than `IInv`: searches end
because the rings are well formed, pages in use and pages to go have objects, so
only the style and the callbacks are left to go wrong. Each action has its own
lemma, and `AnimStart` and `AnimDone`, through which nearly all calls go, have theirs.

`HomeReached` adds `LoopNearRoot`: the loop's cursor is the first cell of the
backstage, or the first or second of the stack, whose two ends differ, and the
backstage is empty while the loop is in the stack. So the last iteration finds a
ring of two cells. `HomeAdvances` is proved from it as well: it is the part of
`HomeReturns` that needs no fairness. The bound it counts down is the number of
pages in backstage and stack, plus one iteration that finds the backstage empty
and one that pops the top.

`PageManagerImplementsNavigation` has the invariant `NInv`, which is `IInv` with
`Ordered` and `LoopNearRoot`. `Lands` says what `AnimStart` and `AnimDone` do to the
abstract variables, `MoveContents` what moving a page does to two rings. Each operation
is then its namesake of `PageNavigation`, on the page the call names, or leaves
the navigation alone. That is more than the refinement, in which one operation
could stand in for another, and is stated as `OperationsActAsNamed`. It is proved
and not run: to evaluate it on every step takes TLC several minutes.
`EnteredPageShown` adds `MarksPass`: every mark of a page is the
hidden flag, or "away" of a page that goes, or one the last frame will clear.

**Client.** The shipped program's lists are not well formed, so `IInv` does not
serve. `PagesAppProofs` has instead `AppInv`: while `pages_init` runs the lists are
well formed; from then on they have one of two exact shapes, `Shown` and `Parked`,
up to the lengths, which wrap. In both every search meets its page or the root,
and each step leads from one to the other.

**Network.** `WifiInv` has `Shape`: not started, started with its first event
pending, smartconfig listening, smartconfig told a pair, or using a saved pair;
each shape fixes what may be in the queue, the bits and flash. `HttpInv` is
`OneServer` with what the poll is about to do. Restarts return to the first shape
and keep flash, so a pair that was saved is there for the panic of the first
configuration.

**Storage.** `ServiceInv` joins `NothingHeld` with `Serving` (a request at
work has a path, and a file that is being sent exists); `GalleryInv` joins the
types of the scan with `GifOwned`.
`StorageImplementsStore` goes action by action: each is a step of `FileStore` under the
mapping, or leaves it alone.

**Input.** `KnobInv` has `Checking` (no contact is marked as changed in CHECK) and
`Following`: `net` differs from twice the events plus the state's phase by exactly how far the
shaft is ahead of the debounced levels. At rest the difference is zero, which is
`DetentsCounted`. `RingFollows` and `BitsFollowButton` carry it to the ring and the
bits.

**Battery.** `CounterLags`: below the filter the counter is at most `streak`, and once it
has reached the filter the streak is full.

Only model-checked: liveness (`TransitionsEnd`, `HomeReturns`, `Alternates`,
`Reconnects`, `ServerFollows`, `FailedStartHeals`, `HandlersEnd`, `ShowsEveryGif`,
`LongPressShows`, `SteadyShown`), as the prover reasons neither about fairness nor about ENABLED. Every
invariant, action property and refinement of the passing runs is a theorem.

## 6. Plan

Built: lists, page manager and client first, because everything the device shows
goes through them; then network, storage, input and battery. What would add
most now:

1. the clock of transitions (32-bit milliseconds, the 50 ms after the playtime),
   which `PageManager` leaves open, so that only a late `gui_thread` is told apart;
2. the hand-off of draw buffers between LVGL, `lv_port.c` and the LCD driver, for
   which LVGL's own choice of the buffer would have to be modelled as external;
3. the device registry with several tasks on one device, once the program has
   a device that more than one task uses.

## 7. Not modelled, and why

Most lines of the repository cannot be modelled: of its 27 921 lines of C,
about 20 000 are fonts and icons, that is, generated data without control.

- Drawing and layout: the other pages create widgets and keep no state that an
  operation depends on.
- LCD panel, SPI, I2S, I2C and SD initialisation are calls into ESP-IDF;
  start-up is a straight sequence of them, of which `Network` keeps the order.
- The registry's mutexes are never held across another call, and after start-up
  only `gui_thread` uses the knob and the LEDs: a call is one step in `Input`.
- The pass-through of `lv_port.c` to the file system adds nothing to the calls;
  flush and tick are in the plan above.
- `auto_smart_config` belongs to a timer that is never created. The aht10,
  microphone, ADC button, HTTP client and NTP sources are not called by the
  program. `pm_anim_over_pos_xy`, `pm_anim_push_pos_xy` and `pm_anim_size` have no
  caller. Click and hold callbacks of the button are not registered.
- The wrap of the tick at `page_manager.c:217` only ends a transition early, which
  `page_styles` explores, or delays it.
- Failures left out: `opendir` on a missing card, a failed `calloc`, read errors of
  the card. An `esp_wifi_connect` that is refused (`wifi.c:90`, `:105`, `:172`; its
  result is not looked at) would leave the station idle: `StateTracksLink` and
  `Reconnects` are claims about accepted calls. An `nvs_open` or `nvs_set_blob` that
  fails in `saveWifiConfig` (`wifi.c:59-60`; not looked at either) would leave the pair
  out of flash: `OnlineIsSaved` and its theorem are claims about writes that succeed.
- The names of pages are distinct and non-null where the code dereferences them.
  The names of files are those of entries below the mount point; the deletion of
  the mount point itself, whose path lacks the second slash that
  `file_service.c:402-403` looks for, is not a request of the model.
- `3rd/` is vendored; its knob and button drivers are modelled because the input
  path is made of them.
