----------------------------- MODULE CostReport -----------------------------
(***************************************************************************)
(* The cost report (scheduler/cost_report.py): a loop of its own posts one *)
(* a day if it finds anomalies, anyone gets one on demand in a Slack       *)
(* thread, and a critical one starts an investigation of its own.  AWS,    *)
(* the LLM and Slack are external, and any call of theirs may fail.        *)
(*                                                                         *)
(* Costs are whole dollars; a history lists a service's costs by day, and  *)
(* its last entry is today's, which is partial.                            *)
(***************************************************************************)
EXTENDS Integers, Sequences, FiniteSets, SequencesExt

CONSTANTS
  Requests,        (* reports asked for in Slack *)
  Histories,       (* what AWS may answer: per service its history *)
  MaxReportDays,   (* bounds the daily reports *)
  MaxInquiries,    (* bounds the investigations *)
  MaxCostFaults    (* bounds calls that fail *)

ASSUME CostReportAssumption ==
  /\ {MaxReportDays, MaxInquiries, MaxCostFaults} \subseteq Nat
  /\ {"daily", "nobody"} \cap Requests = {}

ThresholdPercent == 15
CriticalPercent == 30

-----------------------------------------------------------------------------
(* _fetch_cost_data and _format_cost_tables.  An average is a sum over the *)
(* number of its days, and so is kept as a pair.                           *)

SumOf(days) == FoldSeq(LAMBDA x, y : x + y, 0, days)
SquaresOf(days) == FoldSeq(LAMBDA x, y : x * x + y, 0, days)
LastOf(days, n) == SubSeq(days, Len(days) - n + 1, Len(days))

(* The first five days and the last two are left out. *)
Baseline(days) ==
  LET n == Len(days) IN
  IF n > 7 THEN SubSeq(days, 6, n - 2) ELSE IF n > 2 THEN SubSeq(days, 1, n - 2) ELSE days

(* How far a cost lies over the average, both times the number of days. *)
Above(cost, base) == Len(base) * cost - SumOf(base)

(* More than two standard deviations, or the threshold, over the average. *)
Spikes(cost, base) ==
  LET over == Above(cost, base)
      variance == Len(base) * SquaresOf(base) - SumOf(base) * SumOf(base) IN
  \/ variance > 0 /\ over > 0 /\ over * over > 4 * variance
  \/ SumOf(base) > 0 /\ 100 * over > ThresholdPercent * SumOf(base)

(* Rounded to a tenth of a percent. *)
Critical(over, sum) == sum > 0 /\ 2000 * over + sum >= 2 * sum * 10 * CriticalPercent

(* Five days in a row over the average. *)
Creeps(days, base) ==
  Len(days) >= 5 /\ \A k \in 1 .. 5 : Above(LastOf(days, 5)[k], base) > 0

CreepOver(days, base) == Len(base) * SumOf(LastOf(days, 5)) - 5 * SumOf(base)

Totals(costs) ==
  LET services == DOMAIN costs
      somebody == CHOOSE s \in services : TRUE IN
  [d \in DOMAIN costs[somebody] |-> SumOf([k \in 1 .. Cardinality(services) |->
                                             costs[SetToSeq(services)[k]][d]])]

(* The anomalies of the totals of the last seven days: are they critical?  *)
DailyAnomalies(totals) ==
  LET base == Baseline(totals) IN
  {Critical(Above(x, base), SumOf(base)) :
     x \in {y \in ToSet(LastOf(totals, IF Len(totals) < 7 THEN Len(totals) ELSE 7)) : Spikes(y, base)}}
  \cup IF Creeps(totals, base) THEN {Critical(CreepOver(totals, base), 5 * SumOf(base))} ELSE {}

(* A service's own are looked for on the latest day only. *)
ServiceAnomalies(costs) ==
  LET base(s) == Baseline(costs[s])
      spiking == {s \in DOMAIN costs : Last(costs[s]) >= 1 /\ Spikes(Last(costs[s]), base(s))}
      creeping == {s \in DOMAIN costs \ spiking :
                     /\ SumOf(base(s)) >= Len(base(s)) /\ Creeps(costs[s], base(s))
                     /\ CreepOver(costs[s], base(s)) > Len(base(s))} IN
  {Critical(Above(Last(costs[s]), base(s)), SumOf(base(s))) : s \in spiking}
  \cup {Critical(CreepOver(costs[s], base(s)), 5 * SumOf(base(s))) : s \in creeping}

Found(costs) ==
  LET daily == DailyAnomalies(Totals(costs))
      service == ServiceAnomalies(costs) IN
  [severity |-> IF TRUE \in daily \cup service THEN "critical"
                ELSE IF daily \cup service = {} THEN "info" ELSE "warning",
   services |-> service # {}]

-----------------------------------------------------------------------------
Reporters == Requests \cup {"daily"}
Inquiries == 1 .. MaxInquiries

VARIABLES
  reportLock,     (* who holds _cost_report_lock, if anyone *)
  report,         (* per reporter, its run *)
  reportFile,     (* whose report the day's PDF is *)
  investigating,  (* _investigation_running *)
  inquiry,        (* the threads that investigate *)
  inquiryFile,    (* whose PDF the investigation's file is *)
  raced,          (* history: a report found the event unset beside such a thread *)
  reportDays, costFaults

costVars == <<reportLock, report, reportFile, investigating, inquiry, inquiryFile, raced,
              reportDays, costFaults>>

nobody == "nobody"

NoReport == [at |-> "idle", found |-> [severity |-> "info", services |-> FALSE],
             pdf |-> FALSE, uploaded |-> nobody, told |-> "nothing", failed |-> 0]

NoInquiry == [at |-> "idle", pdf |-> FALSE, uploaded |-> 0]

CostInit ==
  /\ reportLock = nobody
  /\ report = [r \in Reporters |-> NoReport]
  /\ reportFile = nobody /\ inquiryFile = 0
  /\ investigating = FALSE /\ raced = FALSE
  /\ inquiry = [k \in Inquiries |-> NoInquiry]
  /\ reportDays = 0 /\ costFaults = 0

CostFault == costFaults < MaxCostFaults /\ costFaults' = costFaults + 1

Moves(r, from, to) == report[r].at = from /\ report' = [report EXCEPT ![r] = [@ EXCEPT !.at = to]]

Failure(rep, to) == [rep EXCEPT !.at = to, !.failed = rep.failed + 1]

Fails(r, to) == CostFault /\ report' = [report EXCEPT ![r] = Failure(@, to)]

(* What the reader of a report is told. *)
Tells(r, what, to) == report' = [report EXCEPT ![r] = [@ EXCEPT !.at = to, !.told = what]]

inquiryStays == UNCHANGED <<investigating, inquiry, inquiryFile, raced>>

(* `@sage costs', or the hour of the day. *)
StartReport(r) ==
  /\ report[r].at = "idle"
  /\ report' = [report EXCEPT ![r] = [NoReport EXCEPT !.at = "starting"]]
  /\ IF r = "daily" THEN reportDays < MaxReportDays /\ reportDays' = reportDays + 1
     ELSE UNCHANGED reportDays
  /\ UNCHANGED <<reportLock, reportFile, costFaults>> /\ inquiryStays

Finished(r) == IF r = "daily" THEN "idle" ELSE "over"

(* Mutant: a report waits for no other. *)
TakeReportLockAnyway(r) == Moves(r, "starting", "fetching") /\ reportLock' = r

(* "Cost report already running -- skipping this invocation" *)
TakeReportLock(r) ==
  /\ report[r].at = "starting"
  /\ IF reportLock = nobody
     THEN Moves(r, "starting", "fetching") /\ reportLock' = r
     ELSE Tells(r, "skipped", Finished(r)) /\ UNCHANGED reportLock

Starts(r) == TakeReportLock(r) /\ UNCHANGED <<reportFile, reportDays, costFaults>> /\ inquiryStays

(* A daily report without anomalies is not posted. *)
FetchCosts(r) ==
  /\ report[r].at = "fetching"
  /\ \/ /\ \E costs \in Histories :
             LET found == Found(costs) IN
             report' = [report EXCEPT ![r] =
                          [@ EXCEPT !.found = found,
                                    !.at = IF r = "daily" /\ found.severity = "info"
                                           THEN "closing" ELSE "drilling"]]
        /\ UNCHANGED costFaults
     \/ Fails(r, "raised")
  /\ UNCHANGED <<reportLock, reportFile, reportDays>> /\ inquiryStays

(* Up to eight drill-downs at a time; one that fails is left out, and so   *)
(* is the LLM's analysis.  What is made of them may raise.                 *)
DrillDown(r) ==
  /\ report[r].at = "drilling"
  /\ \/ Moves(r, "drilling", "rendering") /\ UNCHANGED costFaults
     \/ Fails(r, "raised")
  /\ UNCHANGED <<reportLock, reportFile, reportDays>> /\ inquiryStays

MakeReportPdf(r) ==
  /\ report[r].at = "rendering"
  /\ \/ /\ report' = [report EXCEPT ![r] = [@ EXCEPT !.pdf = TRUE, !.at = "posting"]]
        /\ reportFile' = r /\ UNCHANGED costFaults
     \/ Fails(r, "posting") /\ UNCHANGED reportFile
  /\ UNCHANGED <<reportLock, reportDays>> /\ inquiryStays

(* post_investigation.  Without a thread to reply to, it posts a headline; *)
(* failing that, it returns as if all were well.                           *)
PostHeadline(r) ==
  /\ report[r].at = "posting"
  /\ \/ Moves(r, "posting", "uploading") /\ UNCHANGED costFaults
     \/ r = "daily" /\ Fails(r, "removing")
  /\ UNCHANGED <<reportLock, reportFile, reportDays>> /\ inquiryStays

(* An upload is tried twice. *)
UploadReport(r) ==
  /\ report[r].at = "uploading"
  /\ \/ /\ report[r].pdf /\ reportFile # nobody
        /\ report' = [report EXCEPT ![r] =
                         [@ EXCEPT !.uploaded = reportFile, !.told = "pdf", !.at = "removing"]]
        /\ UNCHANGED costFaults
     \/ report[r].pdf /\ Fails(r, "texting")
     \/ ~(report[r].pdf /\ reportFile # nobody) /\ Moves(r, "uploading", "texting") /\ UNCHANGED costFaults
  /\ UNCHANGED <<reportLock, reportFile, reportDays>> /\ inquiryStays

PostAnalysis(r) ==
  /\ report[r].at = "texting"
  /\ \/ Tells(r, "text", "removing") /\ UNCHANGED costFaults
     \/ Fails(r, "triggering")
  /\ UNCHANGED <<reportLock, reportFile, reportDays>> /\ inquiryStays

RemoveReportPdf(r) ==
  /\ Moves(r, "removing", "triggering")
  /\ reportFile' = IF report[r].pdf THEN nobody ELSE reportFile
  /\ UNCHANGED <<reportLock, reportDays, costFaults>> /\ inquiryStays

(* The event is looked at here and set by the thread itself. *)
TriggerInquiry(r) ==
  /\ Moves(r, "triggering", "closing")
  /\ IF report[r].found = [severity |-> "critical", services |-> TRUE] /\ ~investigating
     THEN \E k \in Inquiries :
            /\ inquiry[k].at = "idle" /\ \A j \in 1 .. k - 1 : inquiry[j].at # "idle"
            /\ inquiry' = [inquiry EXCEPT ![k] = [@ EXCEPT !.at = "starting"]]
            /\ raced' = (raced \/ \E j \in Inquiries : inquiry[j].at \notin {"idle", "over"})
     ELSE UNCHANGED <<inquiry, raced>>
  /\ UNCHANGED <<reportLock, reportFile, investigating, inquiryFile, reportDays, costFaults>>

(* Only who asked in Slack is told of an exception. *)
EndReport(r) ==
  /\ \/ Moves(r, "closing", Finished(r)) /\ UNCHANGED costFaults
     \/ r = "daily" /\ Moves(r, "raised", "idle") /\ UNCHANGED costFaults
     \/ /\ r # "daily" /\ report[r].at = "raised"
        /\ \/ Tells(r, "error", "over") /\ UNCHANGED costFaults
           \/ Fails(r, "over")
  /\ reportLock' = nobody
  /\ UNCHANGED <<reportFile, reportDays>> /\ inquiryStays

-----------------------------------------------------------------------------
reportStays == UNCHANGED <<reportLock, report, reportFile, raced, reportDays>>

InquiryGoes(k, from, to) == inquiry[k].at = from /\ inquiry' = [inquiry EXCEPT ![k] = [@ EXCEPT !.at = to]]

BeginInquiry(k) ==
  /\ InquiryGoes(k, "starting", "asking")
  /\ investigating' = TRUE
  /\ UNCHANGED <<inquiryFile, costFaults>> /\ reportStays

Inquire(k) ==
  /\ inquiry[k].at = "asking"
  /\ \/ /\ inquiry' = [inquiry EXCEPT ![k] = [@ EXCEPT !.at = "posting", !.pdf = TRUE]]
        /\ inquiryFile' = k /\ UNCHANGED costFaults
     \/ CostFault /\ InquiryGoes(k, "asking", "posting") /\ UNCHANGED inquiryFile
     \/ CostFault /\ InquiryGoes(k, "asking", "clearing") /\ UNCHANGED inquiryFile
  /\ UNCHANGED investigating /\ reportStays

(* Headline, PDF or text; a text that cannot be posted raises. *)
PostInquiry(k) ==
  /\ inquiry[k].at = "posting"
  /\ \/ /\ inquiry[k].pdf /\ inquiryFile # 0
        /\ inquiry' = [inquiry EXCEPT ![k] = [@ EXCEPT !.at = "removing", !.uploaded = inquiryFile]]
        /\ UNCHANGED costFaults
     \/ InquiryGoes(k, "posting", "removing") /\ (CostFault \/ (~inquiry[k].pdf /\ UNCHANGED costFaults))
     \/ CostFault /\ InquiryGoes(k, "posting", "clearing")
  /\ UNCHANGED <<investigating, inquiryFile>> /\ reportStays

RemoveInquiryPdf(k) ==
  /\ InquiryGoes(k, "removing", "clearing")
  /\ inquiryFile' = IF inquiry[k].pdf THEN 0 ELSE inquiryFile
  /\ UNCHANGED <<investigating, costFaults>> /\ reportStays

EndInquiry(k) ==
  /\ InquiryGoes(k, "clearing", "over")
  /\ investigating' = FALSE
  /\ UNCHANGED <<inquiryFile, costFaults>> /\ reportStays

CostNext ==
  \/ \E r \in Reporters :
       \/ StartReport(r) \/ Starts(r) \/ FetchCosts(r) \/ DrillDown(r) \/ MakeReportPdf(r)
       \/ PostHeadline(r) \/ UploadReport(r) \/ PostAnalysis(r) \/ RemoveReportPdf(r)
       \/ TriggerInquiry(r) \/ EndReport(r)
  \/ \E k \in Inquiries :
       \/ BeginInquiry(k) \/ Inquire(k) \/ PostInquiry(k) \/ RemoveInquiryPdf(k) \/ EndInquiry(k)

CostSpec == CostInit /\ [][CostNext]_costVars
-----------------------------------------------------------------------------
(* The reports of a day share one file: what is uploaded is nevertheless   *)
(* the report it is said to be.                                            *)
OwnPdfUploaded == \A r \in Reporters : report[r].uploaded \in {nobody, r}

(* The event is set exactly while a thread investigates, and one does at a *)
(* time, unless two reports end before the first one's thread has begun.   *)
OneInquiryAtATime ==
  ~raced => /\ Cardinality({k \in Inquiries : inquiry[k].at \notin {"idle", "over"}}) <= 1
            /\ investigating <=> \E k \in Inquiries : inquiry[k].at \notin {"idle", "starting", "over"}
            /\ \A k \in Inquiries : inquiry[k].uploaded \in {0, k}

(* Who asks for a report gets it, or an error, or is turned away, as long  *)
(* as one thing at most fails.                                             *)
AskersAnswered ==
  \A r \in Requests : report[r].at = "over" /\ report[r].told = "nothing" => report[r].failed >= 2

(* However reports, those asked for and the daily one, and their           *)
(* investigations overlap, each is what it says and reaches who asked.     *)
CostReportsSound == OwnPdfUploaded /\ OneInquiryAtATime /\ AskersAnswered
=============================================================================
