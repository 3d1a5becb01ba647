--------------------------- MODULE EventFlowProofs ---------------------------
(***************************************************************************)
(* Proofs about EventFlow, for every number of inputs, lines, processors,  *)
(* outputs, events and copies: the tracker counts the copies of an event,  *)
(* its hooks run once, nobody sends on a closed channel, and the pipeline  *)
(* keeps DeliveryContract.                                                 *)
(***************************************************************************)
EXTENDS EventFlow, FiniteSetTheorems, TLAPS

-----------------------------------------------------------------------------
(* The wiring.                                                             *)

\* The goroutines and what they are called.
LEMMA GosCases ==
  ASSUME NEW g \in Gos
  PROVE  \/ \E i \in Inputs : g \in {<<"input", i>>, <<"infilter", i>>, <<"idone", i>>, <<"join", i>>}
         \/ \E l \in Lines, s \in Sts : g \in {<<"pfilter", l, s>>, <<"proc", l, s>>, <<"pdrop", l, s>>}
         \/ \E l \in Lines : g = <<"merge", l>>
         \/ \E o \in Outputs : g \in {<<"ofilter", o>>, <<"output", o>>, <<"rdone", o>>, <<"fdone", o>>}
         \/ g = FanOut
<1>1. CASE g \in InputGos \cup RelayGos \cup OutputGos
  BY <1>1 DEF InputGos, RelayGos, OutputGos, Units
<1>2. CASE g \in FilterGos
  BY <1>2 DEF FilterGos, Units, Procs
<1>3. CASE g \in Mixers \cup ProcGos
  BY <1>3 DEF Mixers, ProcGos, Procs
<1>4. CASE g \in DoneGos
  BY <1>4 DEF DoneGos, Units, Procs
<1> QED BY <1>1, <1>2, <1>3, <1>4 DEF Gos

\* Which goroutines exist in every pipeline, and which only with a filter.
LEMMA GosMembers ==
  /\ \A i \in Inputs : {<<"input", i>>, <<"idone", i>>, <<"join", i>>} \subseteq Gos
  /\ "input" \in Filtered => \A i \in Inputs : <<"infilter", i>> \in Gos
  /\ \A l \in Lines, s \in Sts : {<<"proc", l, s>>, <<"pdrop", l, s>>} \subseteq Gos
  /\ \A l \in Lines, s \in Sts : HasFilter("processor", s) => <<"pfilter", l, s>> \in Gos
  /\ \A l \in Lines : <<"merge", l>> \in Gos
  /\ \A o \in Outputs : {<<"output", o>>, <<"rdone", o>>, <<"fdone", o>>} \subseteq Gos
  /\ "output" \in Filtered => \A o \in Outputs : <<"ofilter", o>> \in Gos
  /\ FanOut \in Gos
<1>1. \A i \in Inputs : {<<"input", i>>, <<"idone", i>>, <<"join", i>>} \subseteq Gos
  BY DEF Gos, InputGos, RelayGos, DoneGos, Units
<1>2. "input" \in Filtered => \A i \in Inputs : <<"infilter", i>> \in Gos
  BY DEF Gos, FilterGos, Units
<1>3. \A l \in Lines, s \in Sts : {<<"proc", l, s>>, <<"pdrop", l, s>>} \subseteq Gos
  BY DEF Gos, Mixers, ProcGos, DoneGos, Procs
<1>4. \A l \in Lines, s \in Sts : HasFilter("processor", s) => <<"pfilter", l, s>> \in Gos
  <2> SUFFICES ASSUME NEW l \in Lines, NEW s \in Sts, HasFilter("processor", s)
               PROVE  <<"pfilter", l, s>> \in FilterGos
    BY DEF Gos
  <2>1. <<"pfilter", l, s>> \in Procs("pfilter") /\ <<"pfilter", l, s>>[3] = s
    BY DEF Procs
  <2> QED BY <2>1 DEF FilterGos
<1>5. \A l \in Lines : <<"merge", l>> \in Gos
  BY DEF Gos, RelayGos, Units
<1>6. \A o \in Outputs : {<<"output", o>>, <<"rdone", o>>, <<"fdone", o>>} \subseteq Gos
  BY DEF Gos, OutputGos, DoneGos, Units
<1>7. "output" \in Filtered => \A o \in Outputs : <<"ofilter", o>> \in Gos
  BY DEF Gos, FilterGos, Units
<1>8. FanOut \in Gos
  BY DEF Gos
<1> QED BY <1>1, <1>2, <1>3, <1>4, <1>5, <1>6, <1>7, <1>8

\* What each kind of goroutine sends on.
LEMMA SinksOf ==
  ASSUME NEW g \in Gos
  PROVE  /\ Sinks[g] \subseteq Chans
         /\ \A i : g = <<"input", i>> => Sinks[g] = {<<"in", i>>}
         /\ \A i : g = <<"infilter", i>> => Sinks[g] = {<<"inacc", i>>, <<"inrej", i>>}
         /\ \A i : g = <<"join", i>> => Sinks[g] = {<<"joined">>}
         /\ \A l, s : g = <<"pfilter", l, s>> => Sinks[g] = {<<"acc", l, s>>, LineOut(l, s)}
         /\ \A l, s : g = <<"proc", l, s>> => Sinks[g] = {<<"drop", l, s>>, LineOut(l, s)}
         /\ \A l : g = <<"merge", l>> => Sinks[g] = {<<"merged">>}
         /\ g = <<"fanout">> => Sinks[g] = {<<"cast", o>> : o \in Outputs}
         /\ \A o : g = <<"ofilter", o>> => Sinks[g] = {<<"oacc", o>>, <<"orej", o>>}
         /\ \A o : g = <<"output", o>> => Sinks[g] = {<<"odone", o>>}
         /\ g[1] \in {"idone", "pdrop", "rdone", "fdone"} => Sinks[g] = {}
<1>1. Sinks[g] \subseteq Chans
  BY DEF Chans
<1> QED BY <1>1 DEF Sinks

\* What each kind of goroutine reads.
LEMMA SourceOf ==
  ASSUME NEW g \in Gos \ InputGos
  PROVE  /\ \A i : g = <<"infilter", i>> => Source[g] = <<"in", i>>
         /\ \A i : g = <<"idone", i>> => Source[g] = <<"inrej", i>>
         /\ \A i : g = <<"join", i>> => Source[g] = InputOut(i)
         /\ \A l, s : g = <<"pfilter", l, s>> => Source[g] = LineOut(l, s - 1)
         /\ \A l, s : g = <<"proc", l, s>> =>
              Source[g] = IF HasFilter("processor", s) THEN <<"acc", l, s>> ELSE LineOut(l, s - 1)
         /\ \A l, s : g = <<"pdrop", l, s>> => Source[g] = <<"drop", l, s>>
         /\ \A l : g = <<"merge", l>> => Source[g] = LineOut(l, Stages)
         /\ g = <<"fanout">> => Source[g] = <<"merged">>
         /\ \A o : g = <<"ofilter", o>> => Source[g] = <<"cast", o>>
         /\ \A o : g = <<"output", o>> =>
              Source[g] = IF "output" \in Filtered THEN <<"oacc", o>> ELSE <<"cast", o>>
         /\ \A o : g = <<"rdone", o>> => Source[g] = <<"orej", o>>
         /\ \A o : g = <<"fdone", o>> => Source[g] = <<"odone", o>>
<1>1. /\ \A i : g = <<"infilter", i>> => Source[g] = <<"in", i>>
      /\ \A i : g = <<"idone", i>> => Source[g] = <<"inrej", i>>
      /\ \A i : g = <<"join", i>> => Source[g] = InputOut(i)
  BY DEF Source
<1>2. \A l, s : g = <<"pfilter", l, s>> => Source[g] = LineOut(l, s - 1)
  BY DEF Source
<1>3. ASSUME NEW l, NEW s, g = <<"proc", l, s>>
      PROVE  Source[g] = IF HasFilter("processor", s) THEN <<"acc", l, s>> ELSE LineOut(l, s - 1)
  <2>1. g[1] = "proc" /\ g[2] = l /\ g[3] = s
    BY <1>3
  <2> QED BY <2>1 DEF Source
<1>4. /\ \A l, s : g = <<"pdrop", l, s>> => Source[g] = <<"drop", l, s>>
      /\ \A l : g = <<"merge", l>> => Source[g] = LineOut(l, Stages)
      /\ g = <<"fanout">> => Source[g] = <<"merged">>
      /\ \A o : g = <<"ofilter", o>> => Source[g] = <<"cast", o>>
  BY DEF Source
<1>5. ASSUME NEW o, g = <<"output", o>>
      PROVE  Source[g] = IF "output" \in Filtered THEN <<"oacc", o>> ELSE <<"cast", o>>
  <2>1. g[1] = "output" /\ g[2] = o
    BY <1>5
  <2> QED BY <2>1 DEF Source
<1>6. /\ \A o : g = <<"rdone", o>> => Source[g] = <<"orej", o>>
      /\ \A o : g = <<"fdone", o>> => Source[g] = <<"odone", o>>
  BY DEF Source
<1> QED BY <1>1, <1>2, <1>3, <1>4, <1>5, <1>6

\* Input goroutines are told from the others by their name.
LEMMA InputNames ==
  ASSUME NEW g \in Gos
  PROVE  g \in InputGos <=> g[1] = "input"
<1>1. g \in InputGos => g[1] = "input"
  BY DEF InputGos, Units
<1>2. g[1] = "input" => \E i \in Inputs : g = <<"input", i>>
  BY GosCases DEF FanOut
<1> QED BY <1>1, <1>2 DEF InputGos, Units

\* Every goroutine that reads reads a channel.
LEMMA SourceIsChan ==
  ASSUME NEW g \in Gos \ InputGos
  PROVE  Source[g] \in Chans
<1>1. \A i \in Inputs : /\ <<"inrej", i>> \in Chans
                        /\ <<"in", i>> \in Chans
                        /\ "input" \in Filtered => <<"inacc", i>> \in Chans
  <2> SUFFICES ASSUME NEW i \in Inputs
               PROVE  /\ <<"inrej", i>> \in Chans
                      /\ <<"in", i>> \in Chans
                      /\ "input" \in Filtered => <<"inacc", i>> \in Chans
    OBVIOUS
  <2>1. <<"inrej", i>> \in Chans
    BY DEF Chans, Units
  <2>2. <<"input", i>> \in Gos
    BY GosMembers
  <2>3. <<"in", i>> \in Chans
    BY <2>2, SinksOf
  <2>4. ASSUME "input" \in Filtered
        PROVE  <<"inacc", i>> \in Chans
    <3>1. <<"infilter", i>> \in Gos
      BY <2>4, GosMembers
    <3> QED BY <3>1, SinksOf
  <2> QED BY <2>1, <2>3, <2>4
<1>2. <<"joined">> \in Chans
  <2>1. PICK i \in Inputs : TRUE
    BY FlowAssumption
  <2>2. <<"join", i>> \in Gos
    BY GosMembers
  <2> QED BY <2>2, SinksOf
<1>3. \A l \in Lines, s \in Sts : /\ <<"drop", l, s>> \in Chans
                                  /\ LineOut(l, s) \in Chans
                                  /\ HasFilter("processor", s) => <<"acc", l, s>> \in Chans
  <2> SUFFICES ASSUME NEW l \in Lines, NEW s \in Sts
               PROVE  /\ <<"drop", l, s>> \in Chans
                      /\ LineOut(l, s) \in Chans
                      /\ HasFilter("processor", s) => <<"acc", l, s>> \in Chans
    OBVIOUS
  <2>1. <<"proc", l, s>> \in Gos
    BY GosMembers
  <2>2. <<"drop", l, s>> \in Chans /\ LineOut(l, s) \in Chans
    BY <2>1, SinksOf
  <2>3. ASSUME HasFilter("processor", s)
        PROVE  <<"acc", l, s>> \in Chans
    <3>1. <<"pfilter", l, s>> \in Gos
      BY <2>3, GosMembers
    <3> QED BY <3>1, SinksOf
  <2> QED BY <2>2, <2>3
<1>4. \A l \in Lines, s \in Sts \cup {0} : LineOut(l, s) \in Chans
  BY <1>2, <1>3 DEF LineOut
<1>5. <<"merged">> \in Chans
  <2>1. PICK l \in Lines : TRUE
    BY FlowAssumption
  <2>2. <<"merge", l>> \in Gos
    BY GosMembers
  <2> QED BY <2>2, SinksOf
<1>6. \A o \in Outputs : /\ <<"cast", o>> \in Chans /\ <<"orej", o>> \in Chans
                         /\ <<"odone", o>> \in Chans
                         /\ "output" \in Filtered => <<"oacc", o>> \in Chans
  <2> SUFFICES ASSUME NEW o \in Outputs
               PROVE  /\ <<"cast", o>> \in Chans /\ <<"orej", o>> \in Chans
                      /\ <<"odone", o>> \in Chans
                      /\ "output" \in Filtered => <<"oacc", o>> \in Chans
    OBVIOUS
  <2>1. <<"orej", o>> \in Chans
    BY DEF Chans, Units
  <2>2. <<"fanout">> \in Gos /\ <<"output", o>> \in Gos
    BY GosMembers DEF FanOut
  <2>3. <<"cast", o>> \in Chans
    BY <2>2, SinksOf
  <2>4. <<"odone", o>> \in Chans
    <3>1. Sinks[<<"output", o>>] = {<<"odone", o>>}
      BY <2>2, SinksOf
    <3> QED BY <3>1, <2>2, SinksOf
  <2>5. ASSUME "output" \in Filtered
        PROVE  <<"oacc", o>> \in Chans
    <3>1. <<"ofilter", o>> \in Gos
      BY <2>5, GosMembers
    <3> QED BY <3>1, SinksOf
  <2> QED BY <2>1, <2>3, <2>4, <2>5
<1>7. CASE \E i \in Inputs : g \in {<<"input", i>>, <<"infilter", i>>, <<"idone", i>>, <<"join", i>>}
  <2> PICK i \in Inputs : g \in {<<"input", i>>, <<"infilter", i>>, <<"idone", i>>, <<"join", i>>}
    BY <1>7
  <2>1. g # <<"input", i>>
    BY InputNames
  <2>2. InputOut(i) \in Chans
    BY <1>1 DEF InputOut
  <2> QED BY <2>1, <2>2, <1>1, SourceOf
<1>8. CASE \E l \in Lines, s \in Sts : g \in {<<"pfilter", l, s>>, <<"proc", l, s>>, <<"pdrop", l, s>>}
  <2> PICK l \in Lines, s \in Sts : g \in {<<"pfilter", l, s>>, <<"proc", l, s>>, <<"pdrop", l, s>>}
    BY <1>8
  <2>1. LineOut(l, s - 1) \in Chans
    <3>1. s - 1 \in Sts \cup {0}
      BY FlowAssumption DEF Sts
    <3> QED BY <3>1, <1>4
  <2>2. CASE g = <<"pfilter", l, s>>
    BY <2>1, <2>2, SourceOf
  <2>3. CASE g = <<"proc", l, s>>
    <3>1. Source[g] = IF HasFilter("processor", s) THEN <<"acc", l, s>> ELSE LineOut(l, s - 1)
      BY <2>3, SourceOf
    <3>2. HasFilter("processor", s) => <<"acc", l, s>> \in Chans
      BY <1>3, Zenon
    <3> QED BY <3>1, <3>2, <2>1, Zenon
  <2>4. CASE g = <<"pdrop", l, s>>
    <3>1. Source[g] = <<"drop", l, s>>
      BY <2>4, SourceOf
    <3>2. <<"drop", l, s>> \in Chans
      BY <1>3, Zenon
    <3> QED BY <3>1, <3>2
  <2> QED BY <2>2, <2>3, <2>4
<1>9. CASE \E l \in Lines : g = <<"merge", l>>
  <2>1. Stages \in Sts \cup {0}
    BY FlowAssumption DEF Sts
  <2> QED BY <2>1, <1>4, <1>9, SourceOf
<1>10. CASE \E o \in Outputs : g \in {<<"ofilter", o>>, <<"output", o>>, <<"rdone", o>>, <<"fdone", o>>}
  <2> PICK o \in Outputs : g \in {<<"ofilter", o>>, <<"output", o>>, <<"rdone", o>>, <<"fdone", o>>}
    BY <1>10
  <2> QED BY <1>6, SourceOf
<1>11. CASE g = FanOut
  BY <1>11, <1>5, SourceOf DEF FanOut
<1> QED BY <1>7, <1>8, <1>9, <1>10, <1>11, GosCases

\* The goroutines whose end closes a channel.
LEMMA ClosersOf ==
  ASSUME NEW c \in Chans
  PROVE  /\ \A i : c = <<"in", i>> => Closers[c] = {<<"input", i>>}
         /\ \A i : c = <<"inacc", i>> => Closers[c] = {<<"infilter", i>>}
         /\ \A i : c = <<"inrej", i>> => Closers[c] = {<<"input", i>>, <<"infilter", i>>}
         /\ c = <<"joined">> => Closers[c] = Units("join", Inputs)
         /\ \A l, s : c = <<"acc", l, s>> => Closers[c] = {<<"pfilter", l, s>>}
         /\ \A l, s : c = <<"drop", l, s>> => Closers[c] = DropWaits(l, s)
         /\ \A l, s : c = <<"out", l, s>> => Closers[c] = UnitWaits(l, s)
         /\ c = <<"merged">> => Closers[c] = Units("merge", Lines)
         /\ \A o : c = <<"cast", o>> => Closers[c] = {FanOut}
         /\ \A o : c = <<"oacc", o>> => Closers[c] = {<<"ofilter", o>>}
         /\ \A o : c \in {<<"orej", o>>, <<"odone", o>>} => Closers[c] = {<<"output", o>>}
<1>1. /\ \A i : c = <<"in", i>> => Closers[c] = {<<"input", i>>}
      /\ \A i : c = <<"inacc", i>> => Closers[c] = {<<"infilter", i>>}
      /\ \A i : c = <<"inrej", i>> => Closers[c] = {<<"input", i>>, <<"infilter", i>>}
      /\ c = <<"joined">> => Closers[c] = Units("join", Inputs)
  BY DEF Closers
<1>2. \A l, s : c = <<"acc", l, s>> => Closers[c] = {<<"pfilter", l, s>>}
  BY DEF Closers
<1>3. \A l, s : c = <<"drop", l, s>> => Closers[c] = DropWaits(l, s)
  BY DEF Closers
<1>4. \A l, s : c = <<"out", l, s>> => Closers[c] = UnitWaits(l, s)
  BY DEF Closers
<1>5. /\ c = <<"merged">> => Closers[c] = Units("merge", Lines)
      /\ \A o : c = <<"cast", o>> => Closers[c] = {FanOut}
      /\ \A o : c = <<"oacc", o>> => Closers[c] = {<<"ofilter", o>>}
  BY DEF Closers
<1>6. \A o : c \in {<<"orej", o>>, <<"odone", o>>} => Closers[c] = {<<"output", o>>}
  BY DEF Closers
<1> QED BY <1>1, <1>2, <1>3, <1>4, <1>5, <1>6

\* A channel is closed only when the goroutines that send on it have ended; of the
\* rejections of an output, only when the output, which is behind the filter, has.
LEMMA SendersClose ==
  ASSUME NEW g \in Gos \ Mixers, NEW c \in Sinks[g]
  PROVE  \/ g \in Closers[c]
         \/ \E o \in Outputs : g = <<"ofilter", o>> /\ c = <<"orej", o>>
<1>1. c \in Chans
  BY SinksOf
<1>2. CASE \E i \in Inputs : g \in {<<"input", i>>, <<"infilter", i>>, <<"idone", i>>, <<"join", i>>}
  <2> PICK i \in Inputs : g \in {<<"input", i>>, <<"infilter", i>>, <<"idone", i>>, <<"join", i>>}
    BY <1>2
  <2>1. CASE g = <<"input", i>>
    <3>1. c = <<"in", i>>
      BY <2>1, SinksOf
    <3> QED BY <3>1, <2>1, <1>1, ClosersOf
  <2>2. CASE g = <<"infilter", i>>
    <3>1. c = <<"inacc", i>> \/ c = <<"inrej", i>>
      BY <2>2, SinksOf
    <3> QED BY <3>1, <2>2, <1>1, ClosersOf
  <2>3. CASE g = <<"join", i>>
    <3>1. c = <<"joined">>
      BY <2>3, SinksOf
    <3> QED BY <3>1, <2>3, <1>1, ClosersOf DEF Units
  <2>4. CASE g = <<"idone", i>>
    BY <2>4, SinksOf
  <2> QED BY <2>1, <2>2, <2>3, <2>4
<1>3. CASE \E l \in Lines, s \in Sts : g \in {<<"pfilter", l, s>>, <<"proc", l, s>>, <<"pdrop", l, s>>}
  <2> PICK l \in Lines, s \in Sts : g \in {<<"pfilter", l, s>>, <<"proc", l, s>>, <<"pdrop", l, s>>}
    BY <1>3
  <2>1. LineOut(l, s) = <<"out", l, s>>
    BY FlowAssumption DEF LineOut, Sts
  <2>2. CASE g = <<"pfilter", l, s>>
    <3>1. c = <<"acc", l, s>> \/ c = <<"out", l, s>>
      BY <2>1, <2>2, SinksOf
    <3> QED BY <3>1, <2>2, <1>1, ClosersOf DEF UnitWaits
  <2>3. CASE g = <<"proc", l, s>>
    <3>1. c = <<"drop", l, s>> \/ c = <<"out", l, s>>
      BY <2>1, <2>3, SinksOf
    <3> QED BY <3>1, <2>3, <1>1, ClosersOf DEF UnitWaits, DropWaits
  <2>4. CASE g = <<"pdrop", l, s>>
    BY <2>4, SinksOf
  <2> QED BY <2>2, <2>3, <2>4
<1>4. CASE \E l \in Lines : g = <<"merge", l>>
  <2> PICK l \in Lines : g = <<"merge", l>>
    BY <1>4
  <2>1. c = <<"merged">>
    BY SinksOf
  <2> QED BY <2>1, <1>1, ClosersOf DEF Units
<1>5. CASE \E o \in Outputs : g \in {<<"ofilter", o>>, <<"output", o>>, <<"rdone", o>>, <<"fdone", o>>}
  <2> PICK o \in Outputs : g \in {<<"ofilter", o>>, <<"output", o>>, <<"rdone", o>>, <<"fdone", o>>}
    BY <1>5
  <2>1. CASE g = <<"ofilter", o>>
    <3>1. c = <<"oacc", o>> \/ c = <<"orej", o>>
      BY <2>1, SinksOf
    <3> QED BY <3>1, <2>1, <1>1, ClosersOf
  <2>2. CASE g = <<"output", o>>
    <3>1. c = <<"odone", o>>
      BY <2>2, SinksOf
    <3> QED BY <3>1, <2>2, <1>1, ClosersOf
  <2>3. CASE g \in {<<"rdone", o>>, <<"fdone", o>>}
    BY <2>3, SinksOf
  <2> QED BY <2>1, <2>2, <2>3
<1>6. CASE g = FanOut
  <2>1. PICK o \in Outputs : c = <<"cast", o>>
    BY <1>6, SinksOf DEF FanOut
  <2> QED BY <2>1, <1>6, <1>1, ClosersOf
<1> QED BY <1>2, <1>3, <1>4, <1>5, <1>6, GosCases

\* Somebody reads every channel.
LEMMA EveryChanIsRead ==
  ASSUME NEW c \in Chans
  PROVE  \E g \in Gos \ InputGos : Source[g] = c
<1> DEFINE Read(d) == \E g \in Gos \ InputGos : Source[g] = d
<1>1. \A i \in Inputs : Read(<<"inrej", i>>) /\ Read(InputOut(i))
                        /\ ("input" \in Filtered => Read(<<"in", i>>))
  <2> TAKE i \in Inputs
  <2>1. {<<"idone", i>>, <<"join", i>>} \subseteq Gos \ InputGos
    BY GosMembers, InputNames
  <2>2. Source[<<"idone", i>>] = <<"inrej", i>> /\ Source[<<"join", i>>] = InputOut(i)
    BY <2>1, SourceOf
  <2>3. ASSUME "input" \in Filtered
        PROVE  Read(<<"in", i>>)
    <3>1. <<"infilter", i>> \in Gos \ InputGos
      BY <2>3, GosMembers, InputNames
    <3>2. Source[<<"infilter", i>>] = <<"in", i>>
      BY <3>1, SourceOf
    <3> QED BY <3>1, <3>2
  <2> QED BY <2>1, <2>2, <2>3
<1>2. \A l \in Lines, s \in Sts : Read(<<"drop", l, s>>) /\ Read(LineOut(l, s - 1))
                                  /\ (HasFilter("processor", s) => Read(<<"acc", l, s>>))
  <2> TAKE l \in Lines, s \in Sts
  <2>1. {<<"proc", l, s>>, <<"pdrop", l, s>>} \subseteq Gos \ InputGos
    BY GosMembers, InputNames
  <2>2. Source[<<"pdrop", l, s>>] = <<"drop", l, s>>
    BY <2>1, SourceOf
  <2>3. Source[<<"proc", l, s>>] = IF HasFilter("processor", s) THEN <<"acc", l, s>> ELSE LineOut(l, s - 1)
    BY <2>1, SourceOf
  <2>4. ASSUME HasFilter("processor", s)
        PROVE  Read(LineOut(l, s - 1))
    <3>1. <<"pfilter", l, s>> \in Gos \ InputGos
      BY <2>4, GosMembers, InputNames
    <3>2. Source[<<"pfilter", l, s>>] = LineOut(l, s - 1)
      BY <3>1, SourceOf
    <3> QED BY <3>1, <3>2
  <2> QED BY <2>1, <2>2, <2>3, <2>4
<1>3. \A l \in Lines : Read(LineOut(l, Stages))
  <2> TAKE l \in Lines
  <2>1. <<"merge", l>> \in Gos \ InputGos
    BY GosMembers, InputNames
  <2>2. Source[<<"merge", l>>] = LineOut(l, Stages)
    BY <2>1, SourceOf
  <2> QED BY <2>1, <2>2
<1>4. \A l \in Lines, s \in Sts \cup {0} : Read(LineOut(l, s))
  <2> TAKE l \in Lines, s \in Sts \cup {0}
  <2>1. CASE s = Stages
    BY <2>1, <1>3
  <2>2. CASE s # Stages
    <3>1. s + 1 \in Sts /\ (s + 1) - 1 = s
      BY <2>2, FlowAssumption DEF Sts
    <3> QED BY <3>1, <1>2
  <2> QED BY <2>1, <2>2
<1>5. Read(<<"joined">>)
  <2>1. PICK l \in Lines : TRUE
    BY FlowAssumption
  <2>2. LineOut(l, 0) = <<"joined">>
    BY DEF LineOut
  <2> QED BY <2>2, <1>4
<1>6. Read(<<"merged">>)
  <2>1. FanOut \in Gos \ InputGos
    BY GosMembers, InputNames DEF FanOut
  <2> QED BY <2>1, SourceOf DEF FanOut
<1>7. \A o \in Outputs : Read(<<"cast", o>>) /\ Read(<<"orej", o>>) /\ Read(<<"odone", o>>)
                         /\ ("output" \in Filtered => Read(<<"oacc", o>>))
  <2> TAKE o \in Outputs
  <2>1. {<<"output", o>>, <<"rdone", o>>, <<"fdone", o>>} \subseteq Gos \ InputGos
    BY GosMembers, InputNames
  <2>2. Source[<<"rdone", o>>] = <<"orej", o>> /\ Source[<<"fdone", o>>] = <<"odone", o>>
    BY <2>1, SourceOf
  <2>3. Source[<<"output", o>>] = IF "output" \in Filtered THEN <<"oacc", o>> ELSE <<"cast", o>>
    BY <2>1, SourceOf
  <2>4. ASSUME "output" \in Filtered
        PROVE  Read(<<"cast", o>>)
    <3>1. <<"ofilter", o>> \in Gos \ InputGos
      BY <2>4, GosMembers, InputNames
    <3>2. Source[<<"ofilter", o>>] = <<"cast", o>>
      BY <3>1, SourceOf
    <3> QED BY <3>1, <3>2
  <2> QED BY <2>1, <2>2, <2>3, <2>4
<1> HIDE DEF Read
<1>8. ASSUME c \in Units("inrej", Inputs) \cup Units("orej", Outputs)
      PROVE  Read(c)
  BY <1>8, <1>1, <1>7 DEF Units
<1>9. ASSUME NEW g \in Gos, c \in Sinks[g]
      PROVE  Read(c)
  <2>1. CASE \E i \in Inputs : g \in {<<"input", i>>, <<"infilter", i>>, <<"idone", i>>, <<"join", i>>}
    <3> PICK i \in Inputs : g \in {<<"input", i>>, <<"infilter", i>>, <<"idone", i>>, <<"join", i>>}
      BY <2>1
    <3>1. Read(<<"in", i>>)
      BY <1>1 DEF InputOut
    <3>2. g = <<"infilter", i>> => "input" \in Filtered
      <4>1. \A k, t, n : <<"infilter", i>> # <<k, t, n>>
        OBVIOUS
      <4> QED BY <4>1 DEF Gos, InputGos, FilterGos, RelayGos, Mixers, ProcGos, OutputGos,
                          DoneGos, FanOut, Units, Procs
    <3>3. g = <<"infilter", i>> => Read(<<"inacc", i>>)
      BY <3>2, <1>1 DEF InputOut
    <3> QED BY <3>1, <3>3, <1>1, <1>5, <1>9, SinksOf
  <2>2. CASE \E l \in Lines, s \in Sts : g \in {<<"pfilter", l, s>>, <<"proc", l, s>>, <<"pdrop", l, s>>}
    <3> PICK l \in Lines, s \in Sts : g \in {<<"pfilter", l, s>>, <<"proc", l, s>>, <<"pdrop", l, s>>}
      BY <2>2
    <3>1. Read(LineOut(l, s)) /\ Read(<<"drop", l, s>>)
      BY <1>2, <1>4
    <3>2. CASE g = <<"pfilter", l, s>>
      <4>1. g \in FilterGos /\ g[3] = s
        BY <3>2 DEF Gos, InputGos, RelayGos, Mixers, ProcGos, OutputGos, DoneGos, FanOut, Units, Procs
      <4>2. HasFilter("processor", s)
        BY <4>1, <3>2 DEF FilterGos, Units
      <4> QED BY <4>2, <3>1, <3>2, <1>2, <1>9, SinksOf
    <3>3. CASE g \in {<<"proc", l, s>>, <<"pdrop", l, s>>}
      BY <3>1, <3>3, <1>9, SinksOf
    <3> QED BY <3>2, <3>3
  <2>3. CASE \E l \in Lines : g = <<"merge", l>>
    BY <2>3, <1>6, <1>9, SinksOf
  <2>4. CASE \E o \in Outputs : g \in {<<"ofilter", o>>, <<"output", o>>, <<"rdone", o>>, <<"fdone", o>>}
    <3> PICK o \in Outputs : g \in {<<"ofilter", o>>, <<"output", o>>, <<"rdone", o>>, <<"fdone", o>>}
      BY <2>4
    <3>1. g = <<"ofilter", o>> => "output" \in Filtered
      BY DEF Gos, InputGos, FilterGos, RelayGos, Mixers, ProcGos, OutputGos, DoneGos, FanOut, Units, Procs
    <3>2. g = <<"ofilter", o>> => Read(<<"oacc", o>>)
      BY <3>1, <1>7
    <3>3. CASE g = <<"ofilter", o>>
      <4>1. c = <<"oacc", o>> \/ c = <<"orej", o>>
        BY <3>3, <1>9, SinksOf
      <4> QED BY <4>1, <3>2, <3>3, <1>7
    <3>4. CASE g = <<"output", o>>
      <4>1. c = <<"odone", o>>
        BY <3>4, <1>9, SinksOf
      <4> QED BY <4>1, <1>7
    <3>5. CASE g \in {<<"rdone", o>>, <<"fdone", o>>}
      BY <3>5, <1>9, SinksOf
    <3> QED BY <3>3, <3>4, <3>5
  <2>5. CASE g = FanOut
    <3>1. PICK o \in Outputs : c = <<"cast", o>>
      BY <2>5, <1>9, SinksOf DEF FanOut
    <3> QED BY <3>1, <1>7
  <2> QED BY <2>1, <2>2, <2>3, <2>4, <2>5, GosCases
<1>10. Read(c)
  <2>1. CASE \E g \in Gos : c \in Sinks[g]
    BY <2>1, <1>9
  <2>2. CASE c \in Units("inrej", Inputs) \cup Units("orej", Outputs)
    BY <2>2, <1>8
  <2> QED BY <2>1, <2>2 DEF Chans
<1> QED BY <1>10 DEF Read

-----------------------------------------------------------------------------
(* The tracker.                                                            *)

TrackTypes ==
  /\ at \in [Tokens -> Chans \cup Gos \cup {None}]
  /\ ev \in [Tokens -> Events \cup {None}]
  /\ duty \in [Events -> Nat]
  /\ fired \in [Events -> Nat]
  /\ produced \subseteq Events

\* A token that is somewhere is a copy of an event that an input has made.
CopiesLive ==
  \A k \in Tokens : /\ at[k] = None <=> ev[k] = None
                    /\ ev[k] # None => ev[k] \in produced

Tracked == TrackTypes /\ CopiesLive /\ DutyIsCopies /\ HooksRunOnce

LEMMA CopiesFinite ==
  ASSUME NEW e
  PROVE  /\ IsFiniteSet(CopiesOf(e))
         /\ Cardinality(CopiesOf(e)) \in Nat
         /\ Cardinality(CopiesOf(e)) = 0 <=> CopiesOf(e) = {}
<1>1. CopiesOf(e) \in SUBSET Tokens
  BY DEF CopiesOf
<1>2. IsFiniteSet(CopiesOf(e))
  BY <1>1, FlowAssumption, FS_Subset
<1> QED BY <1>2, FS_CardinalityType, FS_EmptySet

\* An event that no input has made has no copies.
LEMMA NoCopiesBefore ==
  ASSUME Tracked, NEW e \in Events \ produced
  PROVE  CopiesOf(e) = {}
BY DEF Tracked, CopiesLive, CopiesOf, TrackTypes

LEMMA StillTracked ==
  ASSUME Tracked, UNCHANGED <<at, ev, duty, fired, produced>>
  PROVE  Tracked' /\ \A e : CopiesOf(e)' = CopiesOf(e)
<1>1. \A e : CopiesOf(e)' = CopiesOf(e)
  BY DEF CopiesOf
<1> QED BY <1>1 DEF Tracked, TrackTypes, CopiesLive, DutyIsCopies, HooksRunOnce

\* A token that goes from one place to another.
LEMMA MoveTracked ==
  ASSUME Tracked, NEW k \in Tokens, NEW p \in Chans \cup Gos,
         at[k] # None, Move(k, p), produced' = produced
  PROVE  Tracked' /\ \A e : CopiesOf(e)' = CopiesOf(e)
<1>1. p # None
  BY NoneAssumption
<1>2. \A q \in Tokens : at'[q] = None <=> at[q] = None
  BY <1>1 DEF Move, Tracked, TrackTypes
<1>3. \A e : CopiesOf(e)' = CopiesOf(e)
  BY <1>2 DEF Move, CopiesOf
<1>4. TrackTypes'
  BY DEF Tracked, TrackTypes, Move
<1>5. CopiesLive'
  BY <1>2 DEF Tracked, CopiesLive, Move
<1> QED BY <1>3, <1>4, <1>5 DEF Tracked, DutyIsCopies, HooksRunOnce, Move

\* An event that an input has just made.
LEMMA AcceptTracked ==
  ASSUME Tracked, NEW k \in Tokens, NEW p \in Gos, NEW e \in Events \ produced,
         at[k] = None,
         produced' = produced \cup {e},
         at' = [at EXCEPT ![k] = p], ev' = [ev EXCEPT ![k] = e],
         duty' = [duty EXCEPT ![e] = 1], fired' = fired
  PROVE  /\ Tracked'
         /\ CopiesOf(e) = {} /\ CopiesOf(e)' = {k}
         /\ \A d \in Events \ {e} : CopiesOf(d)' = CopiesOf(d)
<1>1. p # None /\ e # None
  BY NoneAssumption
<1>2. TrackTypes'
  BY DEF Tracked, TrackTypes
<1>3. CopiesLive'
  BY <1>1 DEF Tracked, TrackTypes, CopiesLive
<1>4. CopiesOf(e) = {}
  BY NoCopiesBefore
<1>5. CopiesOf(e)' = {k}
  BY <1>1, <1>4 DEF CopiesOf, Tracked, TrackTypes
<1>6. \A d \in Events \ {e} : CopiesOf(d)' = CopiesOf(d)
  BY <1>1 DEF CopiesOf, Tracked, TrackTypes
<1>7. DutyIsCopies'
  <2> SUFFICES ASSUME NEW d \in Events
               PROVE  duty'[d] = Cardinality(CopiesOf(d)')
    BY DEF DutyIsCopies
  <2>1. CASE d = e
    BY <2>1, <1>5, FS_Singleton DEF Tracked, TrackTypes
  <2>2. CASE d # e
    BY <2>2, <1>6 DEF Tracked, TrackTypes, DutyIsCopies
  <2> QED BY <2>1, <2>2
<1>8. HooksRunOnce'
  <2> SUFFICES ASSUME NEW d \in Events
               PROVE  fired'[d] = IF d \in produced' /\ CopiesOf(d)' = {} THEN 1 ELSE 0
    BY DEF HooksRunOnce
  <2>1. fired[d] = IF d \in produced /\ CopiesOf(d) = {} THEN 1 ELSE 0
    BY DEF Tracked, HooksRunOnce
  <2>2. CASE d = e
    BY <2>1, <2>2, <1>5
  <2>3. CASE d # e
    BY <2>1, <2>3, <1>6
  <2> QED BY <2>2, <2>3
<1> QED BY <1>2, <1>3, <1>4, <1>5, <1>6, <1>7, <1>8 DEF Tracked

\* Another copy of an event.
LEMMA CloneTracked ==
  ASSUME Tracked, NEW k \in Tokens, NEW j \in Tokens, NEW c \in Chans \cup Gos,
         at[k] # None, Clone(k, j, c), produced' = produced,
         NEW e, e = ev[k]
  PROVE  /\ Tracked'
         /\ \A d \in Events : CopiesOf(d)' = {} <=> CopiesOf(d) = {}
<1>1. c # None /\ e \in Events /\ e # None /\ e \in produced
  BY NoneAssumption DEF Tracked, TrackTypes, CopiesLive
<1>2. j # k /\ at[j] = None
  BY DEF Clone
<1>3. TrackTypes'
  BY <1>1 DEF Tracked, TrackTypes, Clone, Copied
<1>4. CopiesLive'
  BY <1>1 DEF Tracked, TrackTypes, CopiesLive, Clone
<1>5. CopiesOf(e)' = CopiesOf(e) \cup {j} /\ j \notin CopiesOf(e) /\ k \in CopiesOf(e)
  BY <1>1, <1>2 DEF CopiesOf, Tracked, TrackTypes, Clone
<1>6. \A d \in Events \ {e} : CopiesOf(d)' = CopiesOf(d)
  BY <1>1, <1>2 DEF CopiesOf, Tracked, TrackTypes, Clone
<1>7. Cardinality(CopiesOf(e)') = Cardinality(CopiesOf(e)) + 1
  <2>1. IsFiniteSet(CopiesOf(e))
    BY CopiesFinite
  <2>2. Cardinality(CopiesOf(e) \cup {j}) = Cardinality(CopiesOf(e)) + 1
    BY <2>1, <1>5, FS_AddElement
  <2> QED BY <2>2, <1>5
<1>8. DutyIsCopies'
  <2> SUFFICES ASSUME NEW d \in Events
               PROVE  duty'[d] = Cardinality(CopiesOf(d)')
    BY DEF DutyIsCopies
  <2>1. duty[d] = Cardinality(CopiesOf(d))
    BY DEF Tracked, DutyIsCopies
  <2>2. CASE d = e
    BY <2>1, <2>2, <1>1, <1>7 DEF Tracked, TrackTypes, Clone, Copied
  <2>3. CASE d # e
    BY <2>1, <2>3, <1>1, <1>6 DEF Tracked, TrackTypes, Clone
  <2> QED BY <2>2, <2>3
<1>9. \A d \in Events : CopiesOf(d)' = {} <=> CopiesOf(d) = {}
  <2> TAKE d \in Events
  <2>1. CASE d = e
    BY <2>1, <1>5
  <2>2. CASE d # e
    BY <2>2, <1>6
  <2> QED BY <2>1, <2>2
<1>10. HooksRunOnce'
  BY <1>9 DEF HooksRunOnce, Tracked, Clone
<1> QED BY <1>3, <1>4, <1>8, <1>9, <1>10 DEF Tracked

\* Event.Done of a copy.
LEMMA DoneTracked ==
  ASSUME Tracked, NEW k \in Tokens, at[k] # None, Done(k), produced' = produced,
         NEW e, e = ev[k]
  PROVE  /\ Tracked'
         /\ e \in Events /\ CopiesOf(e) # {}
         /\ fired'[e] = IF CopiesOf(e)' = {} THEN 1 ELSE 0
         /\ \A d \in Events \ {e} : CopiesOf(d)' = CopiesOf(d) /\ fired'[d] = fired[d]
<1>0. PICK n : n = duty[e] - 1
  OBVIOUS
<1>1. e \in Events /\ e # None /\ e \in produced
  BY NoneAssumption DEF Tracked, TrackTypes, CopiesLive
<1>2. k \in CopiesOf(e)
  BY <1>1 DEF CopiesOf
<1>3. duty[e] = Cardinality(CopiesOf(e)) /\ duty[e] \in Nat /\ duty[e] # 0
  BY <1>1, <1>2, CopiesFinite DEF Tracked, DutyIsCopies
<1>4. n \in Nat
  BY <1>0, <1>3
<1>5. /\ at' = [at EXCEPT ![k] = None]
      /\ ev' = [ev EXCEPT ![k] = None]
      /\ duty' = [duty EXCEPT ![e] = n]
      /\ fired' = IF n = 0 THEN [fired EXCEPT ![e] = @ + 1] ELSE fired
  BY <1>0 DEF Done, HookDue
<1>6. TrackTypes'
  BY <1>1, <1>4, <1>5 DEF Tracked, TrackTypes
<1>7. CopiesLive'
  BY <1>1, <1>5 DEF Tracked, TrackTypes, CopiesLive
<1>8. CopiesOf(e)' = CopiesOf(e) \ {k}
  BY <1>1, <1>5 DEF CopiesOf, Tracked, TrackTypes
<1>9. \A d \in Events \ {e} : CopiesOf(d)' = CopiesOf(d)
  BY <1>1, <1>5 DEF CopiesOf, Tracked, TrackTypes
<1>10. Cardinality(CopiesOf(e)') = n
  BY <1>0, <1>2, <1>3, <1>8, CopiesFinite, FS_RemoveElement
<1>11. DutyIsCopies'
  <2> SUFFICES ASSUME NEW d \in Events
               PROVE  duty'[d] = Cardinality(CopiesOf(d)')
    BY DEF DutyIsCopies
  <2>1. duty[d] = Cardinality(CopiesOf(d))
    BY DEF Tracked, DutyIsCopies
  <2>2. CASE d = e
    BY <2>2, <1>5, <1>10 DEF Tracked, TrackTypes
  <2>3. CASE d # e
    BY <2>1, <2>3, <1>5, <1>9 DEF Tracked, TrackTypes
  <2> QED BY <2>2, <2>3
<1>12. \A d \in Events \ {e} : fired'[d] = fired[d]
  BY <1>5 DEF Tracked, TrackTypes
<1>13. fired[e] = 0
  BY <1>1, <1>2 DEF Tracked, HooksRunOnce
<1>14. fired'[e] = IF n = 0 THEN 1 ELSE 0
  BY <1>1, <1>5, <1>13 DEF Tracked, TrackTypes
<1>15. CopiesOf(e)' = {} <=> n = 0
  <2>1. CopiesOf(e)' \in SUBSET Tokens
    BY <1>8 DEF CopiesOf
  <2>2. IsFiniteSet(CopiesOf(e)')
    BY <2>1, FlowAssumption, FS_Subset
  <2> QED BY <2>2, <1>10, FS_EmptySet
<1>16. fired'[e] = IF CopiesOf(e)' = {} THEN 1 ELSE 0
  BY <1>14, <1>15
<1>17. HooksRunOnce'
  BY <1>1, <1>9, <1>12, <1>16 DEF Tracked, HooksRunOnce
<1> QED BY <1>1, <1>2, <1>6, <1>7, <1>9, <1>11, <1>12, <1>16, <1>17 DEF Tracked

-----------------------------------------------------------------------------
(* The invariant of the tracker is kept by every step.                     *)

OtherTypes ==
  /\ copies \in [Gos -> Nat]
  /\ mixOuts \subseteq Lines
  /\ cases \in [Lines -> SUBSET Lines]
  /\ closed \subseteq Chans
  /\ ended \subseteq Gos
  /\ phase \in {"running", "stopping", "stopped"}

\* The fan-out has an output left for the event in its hands.
CastInv == copies[FanOut] < Outs

\* A mixer selects among lines that are registered, and those have not ended.
MixInv ==
  /\ \A l \in Lines : cases[l] \subseteq mixOuts
  /\ \A l \in mixOuts : MixStage \in Sts /\ <<"proc", l, MixStage>> \notin ended

FlowInv == Tracked /\ OtherTypes /\ CastInv /\ MixInv

LEMMA FlowInvTypeOK == FlowInv => TypeOK
BY DEF FlowInv, Tracked, TrackTypes, OtherTypes, TypeOK

LEMMA InitFlow == Init => FlowInv
<1> SUFFICES ASSUME Init PROVE FlowInv
  OBVIOUS
<1>1. TrackTypes
  BY DEF Init, TrackTypes
<1>2. CopiesLive
  BY DEF Init, CopiesLive
<1>3. \A e \in Events : CopiesOf(e) = {}
  BY DEF Init, CopiesOf
<1>4. DutyIsCopies
  BY <1>3, FS_EmptySet DEF DutyIsCopies, Init
<1>5. HooksRunOnce
  BY DEF Init, HooksRunOnce
<1>6. OtherTypes
  BY DEF Init, OtherTypes
<1>7. CastInv
  BY GosMembers, FlowAssumption DEF Init, CastInv
<1>8. MixInv
  <2>1. MixStage # 0 => MixStage \in Sts
    BY FlowAssumption DEF Sts
  <2> QED BY <2>1 DEF Init, MixInv
<1> QED BY <1>1, <1>2, <1>4, <1>5, <1>6, <1>7, <1>8 DEF FlowInv, Tracked

LEMMA ProduceFlow ==
  ASSUME FlowInv, NEW i \in Inputs, NEW e \in Events, NEW k \in Tokens, Produce(i, e, k)
  PROVE  FlowInv'
<1>1. <<"input", i>> \in Gos
  BY GosMembers
<1>2. Tracked'
  BY <1>1, AcceptTracked DEF Produce, FlowInv
<1> QED BY <1>2 DEF FlowInv, OtherTypes, CastInv, MixInv, Produce, mixing, closing

LEMMA TakeFlow ==
  ASSUME FlowInv, NEW g \in Gos, NEW k \in Tokens, Take(g, k)
  PROVE  FlowInv'
<1>1. Source[g] \in Chans /\ at[k] # None
  BY SourceIsChan, NoneAssumption DEF Take
<1>2. Tracked'
  BY <1>1, MoveTracked DEF Take, FlowInv
<1> QED BY <1>2, FlowAssumption DEF FlowInv, OtherTypes, CastInv, MixInv, Take, mixing, closing

LEMMA PassFlow ==
  ASSUME FlowInv, NEW g \in Gos, NEW k \in Tokens, NEW c \in Sinks[g], Pass(g, k, c)
  PROVE  FlowInv'
<1>1. c \in Chans /\ at[k] # None
  BY SinksOf, NoneAssumption DEF Pass
<1>2. Tracked'
  BY <1>1, MoveTracked DEF Pass, FlowInv
<1> QED BY <1>2 DEF FlowInv, OtherTypes, CastInv, MixInv, Pass, mixing, closing

LEMMA MultiplyFlow ==
  ASSUME FlowInv, NEW g \in Gos, NEW k \in Tokens, NEW j \in Tokens, Multiply(g, k, j)
  PROVE  FlowInv'
<1>1. g \in ProcGos /\ g # FanOut
  BY DEF Multiply, ProcGos, Procs, FanOut
<1>2. at[k] # None /\ Clone(k, j, g) /\ produced' = produced
  BY NoneAssumption DEF Multiply
<1>3. PICK e : e = ev[k]
  OBVIOUS
<1>4. Tracked'
  BY <1>2, <1>3, CloneTracked DEF FlowInv
<1> QED BY <1>1, <1>4, GosMembers DEF FlowInv, OtherTypes, CastInv, MixInv, Multiply, mixing, closing

LEMMA CastOut ==
  ASSUME FlowInv
  PROVE  /\ copies[FanOut] \in Nat /\ copies[FanOut] + 1 \in Outputs
         /\ <<"cast", copies[FanOut] + 1>> \in Sinks[FanOut]
         /\ <<"cast", copies[FanOut] + 1>> \in Chans
<1>1. copies[FanOut] \in Nat /\ copies[FanOut] + 1 \in Outputs
  BY GosMembers, FlowAssumption DEF FlowInv, OtherTypes, CastInv, MixInv, Outputs
<1>2. FanOut \in Gos /\ Sinks[FanOut] \subseteq Chans /\ Sinks[FanOut] = {<<"cast", o>> : o \in Outputs}
  BY GosMembers, SinksOf DEF FanOut
<1> QED BY <1>1, <1>2

LEMMA CastFlow ==
  ASSUME FlowInv, NEW k \in Tokens, NEW j \in Tokens, Cast(k, j)
  PROVE  FlowInv'
<1>1. PICK o : o = copies[FanOut] + 1
  OBVIOUS
<1>2. o \in Nat /\ <<"cast", o>> \in Chans
  BY <1>1, CastOut
<1>3. at[k] # None /\ produced' = produced /\ FanOut \in Gos
  BY NoneAssumption, GosMembers DEF Cast
<1>4. CASE o < Outs
  <2>1. Clone(k, j, <<"cast", o>>) /\ copies' = [copies EXCEPT ![FanOut] = o]
    BY <1>1, <1>4 DEF Cast
  <2>2. PICK e : e = ev[k]
    OBVIOUS
  <2>3. Tracked'
    BY <1>2, <1>3, <2>1, <2>2, CloneTracked DEF FlowInv
  <2> QED BY <1>2, <1>3, <1>4, <2>1, <2>3 DEF FlowInv, OtherTypes, CastInv, MixInv, Cast, mixing, closing
<1>5. CASE ~(o < Outs)
  <2>1. Move(k, <<"cast", o>>) /\ copies' = copies
    BY <1>1, <1>5 DEF Cast
  <2>2. Tracked'
    BY <1>2, <1>3, <2>1, MoveTracked DEF FlowInv
  <2> QED BY <2>1, <2>2 DEF FlowInv, OtherTypes, CastInv, MixInv, Cast, mixing, closing
<1> QED BY <1>4, <1>5

LEMMA ConsumeFlow ==
  ASSUME FlowInv, NEW g \in Gos, NEW k \in Tokens, Consume(g, k)
  PROVE  FlowInv'
<1>1. g \in Gos \ InputGos
  BY InputNames DEF Consume, DoneGos, Units, Procs
<1>2. at[k] # None
  BY <1>1, SourceIsChan, NoneAssumption DEF Consume
<1>3. PICK e : e = ev[k]
  OBVIOUS
<1>4. Tracked'
  BY <1>2, <1>3, DoneTracked DEF FlowInv, Consume
<1> QED BY <1>4 DEF FlowInv, OtherTypes, CastInv, MixInv, Consume, mixing, closing

LEMMA MixerIsGo ==
  ASSUME NEW l \in Lines, MixStage \in Sts
  PROVE  /\ <<"proc", l, MixStage>> \in Gos
         /\ <<"proc", l, MixStage>> \in Mixers
         /\ LineOut(l, MixStage) = <<"out", l, MixStage>>
         /\ LineOut(l, MixStage) \in Chans
<1>1. <<"proc", l, MixStage>> \in Procs("proc")
  BY DEF Procs
<1>2. <<"proc", l, MixStage>>[3] = MixStage
  OBVIOUS
<1>3. <<"proc", l, MixStage>> \in Mixers
  BY <1>1, <1>2 DEF Mixers
<1>4. <<"proc", l, MixStage>> \in Gos
  BY <1>3 DEF Gos
<1>5. LineOut(l, MixStage) = <<"out", l, MixStage>>
  BY FlowAssumption DEF LineOut, Sts
<1>6. LineOut(l, MixStage) \in Sinks[<<"proc", l, MixStage>>]
  BY <1>4, SinksOf
<1> QED BY <1>3, <1>4, <1>5, <1>6, SinksOf

\* What MixSend finds: a mixer that exists, and a line that is registered.
LEMMA MixSendTo ==
  ASSUME FlowInv, NEW l \in Lines, NEW k \in Tokens, NEW to \in Lines, MixSend(l, k, to)
  PROVE  /\ MixStage \in Sts /\ to \in mixOuts
         /\ <<"proc", l, MixStage>> \in Gos /\ at[k] = <<"proc", l, MixStage>> /\ at[k] # None
         /\ LineOut(to, MixStage) \in Chans
         /\ Move(k, LineOut(to, MixStage))
<1>1. to \in mixOuts /\ MixStage \in Sts
  BY DEF MixSend, FlowInv, MixInv
<1> QED BY <1>1, MixerIsGo, NoneAssumption DEF MixSend

LEMMA MixFlow ==
  ASSUME FlowInv, NEW l \in Lines, MixStep(l)
  PROVE  FlowInv'
<1>1. CASE MixLock(l)
  BY <1>1, StillTracked DEF FlowInv, OtherTypes, CastInv, MixInv, MixLock, tracking, closing
<1>2. CASE MixEnd(l)
  <2>1. Tracked' /\ OtherTypes' /\ CastInv'
    BY <1>2, StillTracked DEF FlowInv, OtherTypes, CastInv, MixEnd, tracking, Alive
  <2>2. MixInv'
    BY <1>2 DEF FlowInv, MixInv, OtherTypes, MixEnd, WriteLock
  <2> QED BY <2>1, <2>2 DEF FlowInv
<1>3. ASSUME NEW k \in Tokens, NEW to \in Lines, MixSend(l, k, to)
      PROVE  FlowInv'
  <2>1. PICK c : c = LineOut(to, MixStage)
    OBVIOUS
  <2>2. c \in Chans /\ at[k] # None /\ Move(k, c) /\ produced' = produced
    BY <1>3, <2>1, MixSendTo DEF MixSend
  <2>3. Tracked'
    BY <2>2, MoveTracked DEF FlowInv
  <2> QED BY <1>3, <2>3 DEF FlowInv, OtherTypes, CastInv, MixInv, MixSend, closing
<1> QED BY <1>1, <1>2, <1>3 DEF MixStep

\* Goroutines end and channels are closed: the tokens stay where they are.
LEMMA ControlFlow ==
  ASSUME FlowInv,
         \/ Stop \/ Stopped
         \/ \E i \in Inputs : InputQuit(i) \/ InputStop(i)
         \/ \E g \in Gos : End(g)
         \/ \E c \in Chans : Close(c)
  PROVE  FlowInv' /\ UNCHANGED <<tracking, produced>>
<1>1. CASE Stop \/ Stopped
  BY <1>1, StillTracked DEF FlowInv, OtherTypes, CastInv, MixInv, Stop, Stopped, tracking, mixing, closing
<1>2. ASSUME NEW i \in Inputs, InputEnd(i)
      PROVE  FlowInv' /\ UNCHANGED <<tracking, produced>>
  <2>1. <<"input", i>> \in Gos
    BY GosMembers
  <2>2. \A l : <<"input", i>> # <<"proc", l, MixStage>>
    OBVIOUS
  <2> QED BY <1>2, <2>1, <2>2, StillTracked DEF FlowInv, OtherTypes, CastInv, MixInv, InputEnd, tracking, mixing
<1>3. ASSUME NEW g \in Gos, End(g)
      PROVE  FlowInv' /\ UNCHANGED <<tracking, produced>>
  <2>1. \A l \in Lines : MixStage \in Sts => g # <<"proc", l, MixStage>>
    BY <1>3, MixerIsGo DEF End
  <2> QED BY <1>3, <2>1, StillTracked DEF FlowInv, OtherTypes, CastInv, MixInv, End, tracking, mixing
<1>4. ASSUME NEW c \in Chans, Close(c)
      PROVE  FlowInv' /\ UNCHANGED <<tracking, produced>>
  BY <1>4, StillTracked DEF FlowInv, OtherTypes, CastInv, MixInv, Close, tracking, mixing
<1> QED BY <1>1, <1>2, <1>3, <1>4 DEF InputQuit, InputStop

LEMMA StutterFlow ==
  ASSUME FlowInv, UNCHANGED vars
  PROVE  FlowInv' /\ UNCHANGED <<tracking, produced>>
BY StillTracked DEF FlowInv, OtherTypes, CastInv, MixInv, vars, tracking, mixing, closing

LEMMA NextFlow ==
  ASSUME FlowInv, [Next]_vars
  PROVE  FlowInv'
<1>1. ASSUME NEW g \in Gos, Step(g)
      PROVE  FlowInv'
  <2>1. CASE End(g)
    BY <2>1, ControlFlow
  <2>2. ASSUME NEW k \in Tokens, Take(g, k) \/ Consume(g, k)
        PROVE  FlowInv'
    BY <2>2, TakeFlow, ConsumeFlow
  <2>3. ASSUME NEW k \in Holding(g), NEW c \in Sinks[g], Pass(g, k, c)
        PROVE  FlowInv'
    BY <2>3, PassFlow DEF Holding
  <2>4. ASSUME NEW k \in Holding(g), NEW j \in Tokens, Multiply(g, k, j) \/ Cast(k, j)
        PROVE  FlowInv'
    BY <2>4, MultiplyFlow, CastFlow DEF Holding
  <2> QED BY <1>1, <2>1, <2>2, <2>3, <2>4 DEF Step
<1>2. ASSUME NEW i \in Inputs, NEW e \in Events, NEW k \in Tokens, Produce(i, e, k)
      PROVE  FlowInv'
  BY <1>2, ProduceFlow
<1>3. ASSUME NEW l \in Lines, MixStep(l)
      PROVE  FlowInv'
  BY <1>3, MixFlow
<1>4. CASE UNCHANGED vars
  BY <1>4, StutterFlow
<1>5. CASE \/ Stop \/ Stopped
           \/ \E i \in Inputs : InputQuit(i) \/ InputStop(i)
           \/ \E c \in Chans : Close(c)
  BY <1>5, ControlFlow
<1> QED BY <1>1, <1>2, <1>3, <1>4, <1>5 DEF Next

\* The invariant holds in every reachable state.
LEMMA FlowInvCorrect == Spec => []FlowInv
<1>1. Init => FlowInv
  BY InitFlow
<1>2. FlowInv /\ [Next]_vars => FlowInv'
  BY NextFlow
<1> QED BY <1>1, <1>2, PTL DEF Spec

\* Type correctness of the data plane.
THEOREM TypeCorrect == Spec => []TypeOK
BY FlowInvCorrect, FlowInvTypeOK, PTL

\* The counter of a tracker is the number of copies of its event that are in the
\* pipeline, so Decreace never finds it at zero.
THEOREM DutyCorrect == Spec => []DutyIsCopies
<1>1. FlowInv => DutyIsCopies
  BY DEF FlowInv, Tracked
<1> QED BY <1>1, FlowInvCorrect, PTL

\* The delivery hooks of an event run once, and only after its last copy is gone.
THEOREM HooksCorrect == Spec => []HooksRunOnce
<1>1. FlowInv => HooksRunOnce
  BY DEF FlowInv, Tracked
<1> QED BY <1>1, FlowInvCorrect, PTL

-----------------------------------------------------------------------------
(* The cascade that closes the channels.                                   *)

GoKinds == {"input", "infilter", "idone", "join", "pfilter", "proc", "pdrop", "merge",
            "fanout", "ofilter", "output", "rdone", "fdone"}
ChanKinds == {"in", "inacc", "inrej", "joined", "acc", "drop", "out", "merged", "cast",
              "oacc", "orej", "odone"}

LEMMA KindOfGo ==
  ASSUME NEW g \in Gos
  PROVE  g[1] \in GoKinds
BY GosCases DEF GoKinds, FanOut

LEMMA KindOfChan ==
  ASSUME NEW c \in Chans
  PROVE  c[1] \in ChanKinds
<1>1. CASE c \in Units("inrej", Inputs) \cup Units("orej", Outputs)
  BY <1>1 DEF Units, ChanKinds
<1>2. ASSUME NEW g \in Gos, c \in Sinks[g]
      PROVE  c[1] \in ChanKinds
  <2>1. \A l, s : LineOut(l, s)[1] \in ChanKinds
    BY DEF LineOut, ChanKinds
  <2>2. CASE \E i \in Inputs : g \in {<<"input", i>>, <<"infilter", i>>, <<"idone", i>>, <<"join", i>>}
    BY <1>2, <2>2, SinksOf DEF ChanKinds
  <2>3. CASE \E l \in Lines, s \in Sts : g \in {<<"pfilter", l, s>>, <<"proc", l, s>>, <<"pdrop", l, s>>}
    BY <1>2, <2>1, <2>3, SinksOf DEF ChanKinds
  <2>4. CASE \E l \in Lines : g = <<"merge", l>>
    BY <1>2, <2>4, SinksOf DEF ChanKinds
  <2>5. CASE \E o \in Outputs : g \in {<<"ofilter", o>>, <<"output", o>>, <<"rdone", o>>, <<"fdone", o>>}
    BY <1>2, <2>5, SinksOf DEF ChanKinds
  <2>6. CASE g = FanOut
    BY <1>2, <2>6, SinksOf DEF FanOut, ChanKinds
  <2> QED BY <2>2, <2>3, <2>4, <2>5, <2>6, GosCases
<1> QED BY <1>1, <1>2 DEF Chans

\* A place is a channel or a goroutine.
LEMMA PlacesDiffer == Chans \cap Gos = {}
BY KindOfGo, KindOfChan DEF GoKinds, ChanKinds

\* The closed channels are those whose senders have ended, a goroutine that has
\* ended holds nothing and has read its channel to the end, and Run returns last.
CloseInv ==
  /\ \A c \in closed : Closers[c] \cap Gos \subseteq ended
  /\ \A k \in Tokens : at[k] \notin ended
  /\ \A g \in ended \ InputGos : Source[g] \in closed /\ Holding(Source[g]) = {}
  /\ phase = "stopped" => Gos \subseteq ended

LEMMA InitClose == Init => CloseInv
BY NoneAssumption DEF Init, CloseInv

\* The filter of an output exists only where filters are configured.
LEMMA OutputFilter ==
  ASSUME NEW o \in Outputs, <<"ofilter", o>> \in Gos
  PROVE  "output" \in Filtered
BY DEF Gos, InputGos, FilterGos, RelayGos, Mixers, ProcGos, OutputGos, DoneGos, FanOut, Units, Procs

\* A goroutine that has not ended sends on open channels only.
LEMMA SinksOpen ==
  ASSUME FlowInv, CloseInv, NEW g \in Gos \ Mixers, g \notin ended, NEW c \in Sinks[g]
  PROVE  c \notin closed
<1> SUFFICES ASSUME c \in closed PROVE FALSE
  OBVIOUS
<1>1. Closers[c] \cap Gos \subseteq ended
  BY DEF CloseInv
<1>2. CASE g \in Closers[c]
  BY <1>1, <1>2
<1>3. CASE \E o \in Outputs : g = <<"ofilter", o>> /\ c = <<"orej", o>>
  <2> PICK o \in Outputs : g = <<"ofilter", o>> /\ c = <<"orej", o>>
    BY <1>3
  <2>1. c \in Chans
    BY SinksOf
  <2>2. <<"output", o>> \in Gos \ InputGos /\ <<"output", o>> \in Closers[c]
    <3>1. <<"output", o>> \in Gos
      BY GosMembers
    <3>2. <<"output", o>> \notin InputGos
      BY DEF InputGos, Units
    <3>3. Closers[c] = {<<"output", o>>}
      BY <2>1, ClosersOf
    <3> QED BY <3>1, <3>2, <3>3
  <2>3. Source[<<"output", o>>] \in closed
    BY <1>1, <2>2 DEF CloseInv
  <2>4. Source[<<"output", o>>] = <<"oacc", o>>
    BY <2>2, OutputFilter, SourceOf
  <2>5. <<"oacc", o>> \in Chans
    BY <2>2, <2>4, SourceIsChan
  <2>6. g \in Closers[<<"oacc", o>>]
    BY <2>5, ClosersOf
  <2> QED BY <2>3, <2>4, <2>6 DEF CloseInv
<1> QED BY <1>2, <1>3, SendersClose

\* So does a mixer: the lines it selects among have not ended.
LEMMA MixerOpen ==
  ASSUME FlowInv, CloseInv, NEW to \in mixOuts
  PROVE  /\ MixStage \in Sts /\ to \in Lines
         /\ LineOut(to, MixStage) \in Chans \ closed
<1>1. MixStage \in Sts /\ to \in Lines /\ <<"proc", to, MixStage>> \notin ended
  BY DEF FlowInv, MixInv, OtherTypes
<1>2. /\ <<"proc", to, MixStage>> \in Gos
      /\ LineOut(to, MixStage) \in Chans
      /\ LineOut(to, MixStage) = <<"out", to, MixStage>>
  BY <1>1, MixerIsGo
<1>3. <<"proc", to, MixStage>> \in Closers[LineOut(to, MixStage)]
  BY <1>2, ClosersOf DEF UnitWaits
<1> QED BY <1>1, <1>2, <1>3 DEF CloseInv

\* A token goes to a place that is neither closed nor ended.
LEMMA MoveClose ==
  ASSUME FlowInv, CloseInv, NEW k \in Tokens, NEW p, p \notin closed, p \notin ended,
         at' = [at EXCEPT ![k] = p], UNCHANGED <<closing, phase>>
  PROVE  CloseInv'
<1>1. \A q \in Tokens : at'[q] = IF q = k THEN p ELSE at[q]
  BY DEF FlowInv, Tracked, TrackTypes
<1>2. \A q \in Tokens : at'[q] \notin ended'
  BY <1>1 DEF CloseInv, closing
<1>3. \A g \in ended' \ InputGos : Source[g] \in closed' /\ Holding(Source[g])' = {}
  BY <1>1 DEF CloseInv, closing, Holding
<1> QED BY <1>2, <1>3 DEF CloseInv, closing

LEMMA ChanOpen ==
  ASSUME FlowInv, NEW c \in Chans
  PROVE  c \notin ended
BY PlacesDiffer DEF FlowInv, OtherTypes

LEMMA StepClose ==
  ASSUME FlowInv, CloseInv, NEW g \in Gos, Step(g)
  PROVE  CloseInv'
<1>1. CASE End(g)
  <2>1. g \in Gos \ InputGos /\ ended' = ended \cup {g} /\ Drained(g)
    BY <1>1 DEF End
  <2>2. UNCHANGED <<at, closed, phase>>
    BY <1>1 DEF End, tracking
  <2> QED BY <2>1, <2>2 DEF CloseInv, Drained, Holding
<1>2. ASSUME NEW k \in Tokens, Take(g, k)
      PROVE  CloseInv'
  <2>1. g \notin closed
    BY PlacesDiffer DEF FlowInv, OtherTypes
  <2> QED BY <1>2, <2>1, MoveClose DEF Take, Move, Alive
<1>3. ASSUME NEW k \in Tokens, Consume(g, k)
      PROVE  CloseInv'
  <2>1. None \notin closed /\ None \notin ended
    BY NoneAssumption DEF FlowInv, OtherTypes
  <2> QED BY <1>3, <2>1, MoveClose DEF Consume, Done
<1>4. ASSUME NEW k \in Holding(g), NEW c \in Sinks[g], Pass(g, k, c)
      PROVE  CloseInv'
  <2>1. c \in Chans /\ c \notin closed
    BY <1>4, SinksOf, SinksOpen DEF Pass, Alive
  <2> QED BY <1>4, <2>1, ChanOpen, MoveClose DEF Pass, Move, Holding
<1>5. ASSUME NEW k \in Holding(g), NEW j \in Tokens, Multiply(g, k, j)
      PROVE  CloseInv'
  <2>1. g \notin ended /\ g \notin closed
    BY <1>5, PlacesDiffer DEF Multiply, Alive, FlowInv, OtherTypes
  <2>2. at' = [at EXCEPT ![j] = g]
    BY <1>5 DEF Multiply, Clone
  <2> QED BY <1>5, <2>1, <2>2, MoveClose DEF Multiply
<1>6. ASSUME NEW k \in Holding(g), NEW j \in Tokens, Cast(k, j)
      PROVE  CloseInv'
  <2>1. PICK c : c = <<"cast", copies[FanOut] + 1>>
    OBVIOUS
  <2>2. FanOut \in Gos \ Mixers /\ FanOut \notin ended
    <3>1. FanOut \notin Mixers
      BY DEF Mixers, Procs, FanOut
    <3> QED BY <1>6, <3>1 DEF Cast, Alive
  <2>3. c \in Chans /\ c \notin closed
    BY <2>1, <2>2, CastOut, SinksOpen
  <2>4. at' = [at EXCEPT ![j] = c]
    BY <1>6, <2>1 DEF Cast, Clone, Move
  <2> QED BY <1>6, <2>3, <2>4, ChanOpen, MoveClose DEF Cast
<1> QED BY <1>1, <1>2, <1>3, <1>4, <1>5, <1>6 DEF Step, Holding

LEMMA MixClose ==
  ASSUME FlowInv, CloseInv, NEW l \in Lines, MixStep(l)
  PROVE  CloseInv'
<1>1. CASE MixLock(l)
  BY <1>1 DEF MixLock, CloseInv, Holding, tracking, closing
<1>2. CASE MixEnd(l)
  <2>1. PICK g : g = <<"proc", l, MixStage>>
    OBVIOUS
  <2>2. g \in Gos \ InputGos /\ ended' = ended \cup {g} /\ Drained(g)
    BY <1>2, <2>1, InputNames DEF MixEnd, Alive
  <2>3. UNCHANGED <<at, closed, phase>>
    BY <1>2 DEF MixEnd, tracking
  <2> QED BY <2>2, <2>3 DEF CloseInv, Drained, Holding
<1>3. ASSUME NEW k \in Tokens, NEW to \in Lines, MixSend(l, k, to)
      PROVE  CloseInv'
  <2>1. PICK c : c = LineOut(to, MixStage)
    OBVIOUS
  <2>2. c \in Chans \ closed /\ at' = [at EXCEPT ![k] = c]
    BY <1>3, <2>1, MixSendTo, MixerOpen DEF Move
  <2> QED BY <1>3, <2>2, ChanOpen, MoveClose DEF MixSend
<1> QED BY <1>1, <1>2, <1>3 DEF MixStep

LEMMA NextClose ==
  ASSUME FlowInv, CloseInv, [Next]_vars
  PROVE  CloseInv'
<1>1. ASSUME NEW i \in Inputs, NEW e \in Events, NEW k \in Tokens, Produce(i, e, k)
      PROVE  CloseInv'
  <2>1. PICK g : g = <<"input", i>>
    OBVIOUS
  <2>2. g \in Gos /\ g \notin ended /\ g \notin closed
    BY <1>1, <2>1, PlacesDiffer DEF Produce, Alive, FlowInv, OtherTypes
  <2>3. at' = [at EXCEPT ![k] = g]
    BY <1>1, <2>1 DEF Produce
  <2> QED BY <1>1, <2>2, <2>3, MoveClose DEF Produce
<1>2. ASSUME NEW i \in Inputs, InputEnd(i)
      PROVE  CloseInv'
  <2>1. <<"input", i>> \in InputGos
    BY DEF InputGos, Units
  <2> QED BY <1>2, <2>1 DEF InputEnd, CloseInv, Holding, tracking
<1>3. ASSUME NEW c \in Chans, Close(c)
      PROVE  CloseInv'
  BY <1>3 DEF Close, CloseInv, Holding, tracking
<1>4. CASE Stop \/ Stopped
  BY <1>4 DEF Stop, Stopped, AllReturned, CloseInv, Holding, tracking, closing
<1>5. CASE UNCHANGED vars
  BY <1>5 DEF vars, CloseInv, Holding, tracking, closing
<1>6. ASSUME NEW g \in Gos, Step(g)
      PROVE  CloseInv'
  BY <1>6, StepClose
<1>7. ASSUME NEW l \in Lines, MixStep(l)
      PROVE  CloseInv'
  BY <1>7, MixClose
<1> QED BY <1>1, <1>2, <1>3, <1>4, <1>5, <1>6, <1>7 DEF Next, InputQuit, InputStop

Inv == FlowInv /\ CloseInv

LEMMA InvCorrect == Spec => []Inv
<1>1. Init => Inv
  BY InitFlow, InitClose DEF Inv
<1>2. Inv /\ [Next]_vars => Inv'
  BY NextFlow, NextClose DEF Inv
<1> QED BY <1>1, <1>2, PTL DEF Spec

\* Whatever has an event to send has an open channel to send it on.
LEMMA InvOpen == Inv => NoSendOnClosed
<1> SUFFICES ASSUME Inv, NEW k \in Tokens, at[k] \in Gos, NEW c \in MaySend(at[k])
             PROVE  c \notin closed
  BY DEF NoSendOnClosed
<1>1. at[k] \notin ended
  BY DEF Inv, CloseInv
<1>2. CASE at[k] \notin Mixers
  BY <1>1, <1>2, SinksOpen DEF MaySend, Inv
<1>3. CASE at[k] \in Mixers
  <2>1. PICK l \in Lines : at[k] = <<"proc", l, MixStage>>
    BY <1>3 DEF Mixers, Procs
  <2>2. PICK to \in cases[l] : c = LineOut(to, MixStage)
    BY <1>3, <2>1 DEF MaySend
  <2>3. to \in mixOuts
    BY <2>2 DEF Inv, FlowInv, MixInv
  <2> QED BY <2>2, <2>3, MixerOpen DEF Inv
<1> QED BY <1>2, <1>3

\* No goroutine of a pipeline sends on a channel that has been closed: the cascade of
\* unit ends closes a channel only after its last sender, mixers included.
THEOREM OpenCorrect == Spec => []NoSendOnClosed
BY InvCorrect, InvOpen, PTL

\* A pipeline whose Run has returned holds no event.
LEMMA StoppedEmpty ==
  ASSUME Inv, Gos \subseteq ended, NEW e
  PROVE  CopiesOf(e) = {}
<1> SUFFICES ASSUME NEW k \in Tokens
             PROVE  at[k] = None
  BY DEF CopiesOf
<1>1. at[k] \in Chans \cup Gos \cup {None}
  BY DEF Inv, FlowInv, Tracked, TrackTypes
<1>2. at[k] \notin Gos
  BY DEF Inv, CloseInv
<1>3. at[k] \notin Chans
  <2> SUFFICES ASSUME at[k] \in Chans PROVE FALSE
    OBVIOUS
  <2>1. PICK g \in Gos \ InputGos : Source[g] = at[k]
    BY EveryChanIsRead
  <2> QED BY <2>1 DEF Inv, CloseInv, Holding
<1> QED BY <1>1, <1>2, <1>3

-----------------------------------------------------------------------------
(* The contract about deliveries.                                          *)

Living == {e \in Events : CopiesOf(e) # {}}
Fired  == {e \in Events : fired[e] > 0}

LEMMA SameDeliveries ==
  ASSUME \A e \in Events : CopiesOf(e)' = {} <=> CopiesOf(e) = {}, fired' = fired
  PROVE  Living' = Living /\ Fired' = Fired
BY DEF Living, Fired

LEMMA InitContract == Init => Contract!Init
<1> SUFFICES ASSUME Init PROVE Contract!Init
  OBVIOUS
<1>1. \A e : CopiesOf(e) = {}
  BY DEF Init, CopiesOf
<1> QED BY <1>1 DEF Init, Contract!Init

\* A step that leaves every event alive or not, and its hooks run or not, is a stutter.
LEMMA Stutters ==
  ASSUME Living' = Living, Fired' = Fired, phase' = phase \/ (phase # "stopped" /\ phase' # "stopped")
  PROVE  UNCHANGED Contract!vars
BY DEF Living, Fired, Contract!vars

LEMMA StepContract ==
  ASSUME Inv, NEW g \in Gos, Step(g)
  PROVE  [Contract!Next]_(Contract!vars)
<1>0. Tracked
  BY DEF Inv, FlowInv
<1>1. CASE End(g)
  <2>1. \A e \in Events : CopiesOf(e)' = CopiesOf(e)
    BY <1>1, ControlFlow DEF Inv, tracking, CopiesOf
  <2> QED BY <1>1, <2>1, SameDeliveries, Stutters DEF End, tracking
<1>2. ASSUME NEW k \in Tokens, Take(g, k)
      PROVE  [Contract!Next]_(Contract!vars)
  <2>1. Source[g] \in Chans /\ at[k] # None
    BY <1>2, SourceIsChan, NoneAssumption DEF Take
  <2>2. \A e \in Events : CopiesOf(e)' = CopiesOf(e)
    BY <1>0, <1>2, <2>1, MoveTracked DEF Take
  <2> QED BY <1>2, <2>2, SameDeliveries, Stutters DEF Take, Move
<1>3. ASSUME NEW k \in Tokens, Consume(g, k)
      PROVE  [Contract!Next]_(Contract!vars)
  <2>1. g \in Gos \ InputGos
    BY <1>3, InputNames DEF Consume, DoneGos, Units, Procs
  <2>2. at[k] # None
    BY <1>3, <2>1, SourceIsChan, NoneAssumption DEF Consume
  <2>3. PICK e : e = ev[k]
    OBVIOUS
  <2>4. /\ e \in Events /\ CopiesOf(e) # {}
        /\ fired'[e] = IF CopiesOf(e)' = {} THEN 1 ELSE 0
        /\ \A d \in Events \ {e} : CopiesOf(d)' = CopiesOf(d) /\ fired'[d] = fired[d]
    BY <1>0, <1>3, <2>2, <2>3, DoneTracked DEF Consume
  <2>5. fired[e] = 0 /\ phase' = phase
    BY <1>0, <1>3, <2>4 DEF Tracked, HooksRunOnce, Consume
  <2>6. CASE CopiesOf(e)' = {}
    <3>1. Living' = Living \ {e} /\ Fired' = Fired \cup {e} /\ e \in Living
      BY <2>4, <2>6 DEF Living, Fired
    <3> QED BY <2>4, <2>5, <3>1 DEF Contract!Next, Contract!Acknowledge, Living, Fired
  <2>7. CASE CopiesOf(e)' # {}
    <3>1. Living' = Living /\ Fired' = Fired
      BY <2>4, <2>5, <2>7 DEF Living, Fired
    <3> QED BY <2>5, <3>1, Stutters
  <2> QED BY <2>6, <2>7
<1>4. ASSUME NEW k \in Holding(g), NEW c \in Sinks[g], Pass(g, k, c)
      PROVE  [Contract!Next]_(Contract!vars)
  <2>1. c \in Chans /\ at[k] # None /\ k \in Tokens
    BY <1>4, SinksOf, NoneAssumption DEF Pass, Holding
  <2>2. \A e \in Events : CopiesOf(e)' = CopiesOf(e)
    BY <1>0, <1>4, <2>1, MoveTracked DEF Pass
  <2> QED BY <1>4, <2>2, SameDeliveries, Stutters DEF Pass, Move
<1>5. ASSUME NEW k \in Holding(g), NEW j \in Tokens, Multiply(g, k, j)
      PROVE  [Contract!Next]_(Contract!vars)
  <2>1. at[k] # None /\ k \in Tokens /\ Clone(k, j, g) /\ produced' = produced
    BY <1>5, NoneAssumption DEF Multiply, Holding
  <2>2. PICK e : e = ev[k]
    OBVIOUS
  <2>3. \A d \in Events : CopiesOf(d)' = {} <=> CopiesOf(d) = {}
    BY <1>0, <2>1, <2>2, CloneTracked
  <2> QED BY <1>5, <2>1, <2>3, SameDeliveries, Stutters DEF Multiply, Clone
<1>6. ASSUME NEW k \in Holding(g), NEW j \in Tokens, Cast(k, j)
      PROVE  [Contract!Next]_(Contract!vars)
  <2>1. PICK c : c = <<"cast", copies[FanOut] + 1>>
    OBVIOUS
  <2>2. c \in Chans /\ at[k] # None /\ k \in Tokens /\ produced' = produced /\ phase' = phase
    BY <1>6, <2>1, CastOut, NoneAssumption, GosMembers DEF Cast, Holding, Inv
  <2>3. Clone(k, j, c) \/ Move(k, c)
    BY <1>6, <2>1 DEF Cast
  <2>4. PICK e : e = ev[k]
    OBVIOUS
  <2>5. \A d \in Events : CopiesOf(d)' = {} <=> CopiesOf(d) = {}
    BY <1>0, <2>2, <2>3, <2>4, CloneTracked, MoveTracked
  <2> QED BY <2>2, <2>3, <2>5, SameDeliveries, Stutters DEF Clone, Move
<1> QED BY <1>1, <1>2, <1>3, <1>4, <1>5, <1>6 DEF Step, Holding

LEMMA ProduceContract ==
  ASSUME Inv, NEW i \in Inputs, NEW e \in Events, NEW k \in Tokens, Produce(i, e, k)
  PROVE  [Contract!Next]_(Contract!vars)
<1>1. <<"input", i>> \in Gos
  BY GosMembers
<1>2. /\ CopiesOf(e) = {} /\ CopiesOf(e)' = {k}
      /\ \A d \in Events \ {e} : CopiesOf(d)' = CopiesOf(d)
  BY <1>1, AcceptTracked DEF Produce, Inv, FlowInv
<1>3. e \notin Living /\ Living' = Living \cup {e}
  BY <1>2 DEF Living
<1>4. e \notin Fired /\ Fired' = Fired
  BY DEF Fired, Produce, Inv, FlowInv, Tracked, HooksRunOnce
<1>5. phase # "stopped" /\ phase' = phase
  BY <1>1 DEF Produce, Alive, Inv, CloseInv
<1> QED BY <1>3, <1>4, <1>5 DEF Contract!Next, Contract!Accept, Living, Fired

LEMMA MixContract ==
  ASSUME Inv, NEW l \in Lines, MixStep(l)
  PROVE  [Contract!Next]_(Contract!vars)
<1>1. CASE MixLock(l) \/ MixEnd(l)
  <2>1. UNCHANGED <<at, ev, fired, phase>>
    BY <1>1 DEF MixLock, MixEnd, tracking
  <2>2. \A e \in Events : CopiesOf(e)' = CopiesOf(e)
    BY <2>1 DEF CopiesOf
  <2> QED BY <2>1, <2>2, SameDeliveries, Stutters
<1>2. ASSUME NEW k \in Tokens, NEW to \in Lines, MixSend(l, k, to)
      PROVE  [Contract!Next]_(Contract!vars)
  <2>1. PICK c : c = LineOut(to, MixStage)
    OBVIOUS
  <2>2. c \in Chans /\ at[k] # None /\ Move(k, c) /\ produced' = produced /\ phase' = phase
    BY <1>2, <2>1, MixSendTo DEF MixSend, Inv, closing
  <2>3. \A e \in Events : CopiesOf(e)' = CopiesOf(e)
    BY <2>2, MoveTracked DEF Inv, FlowInv
  <2> QED BY <2>2, <2>3, SameDeliveries, Stutters DEF Move
<1> QED BY <1>1, <1>2 DEF MixStep

LEMMA NextContract ==
  ASSUME Inv, [Next]_vars
  PROVE  [Contract!Next]_(Contract!vars)
<1>1. CASE Stopped
  <2>1. \A e \in Events : CopiesOf(e) = {}
    BY <1>1, StoppedEmpty DEF Stopped, AllReturned
  <2>2. Living = {} /\ Living' = Living /\ Fired' = Fired
    BY <1>1, <2>1 DEF Living, Fired, Stopped, tracking, CopiesOf
  <2> QED BY <1>1, <2>2 DEF Stopped, Contract!Next, Contract!Finish, Living, Fired
<1>2. ASSUME \/ Stop
             \/ \E i \in Inputs : InputEnd(i)
             \/ \E c \in Chans : Close(c)
             \/ UNCHANGED vars
      PROVE  [Contract!Next]_(Contract!vars)
  <2>1. UNCHANGED <<at, ev, fired>> /\ (phase' = phase \/ (phase # "stopped" /\ phase' # "stopped"))
    BY <1>2 DEF Stop, InputEnd, Close, vars, tracking
  <2>2. \A e \in Events : CopiesOf(e)' = CopiesOf(e)
    BY <2>1 DEF CopiesOf
  <2> QED BY <2>1, <2>2, SameDeliveries, Stutters
<1> QED BY <1>1, <1>2, StepContract, ProduceContract, MixContract DEF Next, InputQuit, InputStop

\* The pipeline keeps the contract about deliveries: the hooks of an event run at the
\* moment its last copy is gone, and a pipeline that has stopped holds no event.
THEOREM DeliveryCorrect == Spec => DeliverySpec
<1>1. Init => Contract!Init
  BY InitContract
<1>2. Inv /\ [Next]_vars => [Contract!Next]_(Contract!vars)
  BY NextContract
<1> QED BY <1>1, <1>2, InvCorrect, PTL DEF Spec, DeliverySpec, Contract!Spec
=============================================================================
