---------------------------- MODULE MsdbCatalog ----------------------------
(***************************************************************************)
(* The configuration calls of libs/msdb/msdb.c.  Every one of them has the *)
(* same frame: FileLock, sqlite_conn, one or more SQL statements,          *)
(* sqlite_disconn, FileUnlock.  A call is described by a record of what    *)
(* differs; MsdbCall runs the records.                                     *)
(*                                                                         *)
(* The columns, the WHERE clauses and the copying of fields are left out.  *)
(* Two statements on a table stand for the two or more that a call        *)
(* makes on it, one table for the eight tables of a family of smart events.*)
(***************************************************************************)
EXTENDS Naturals, Sequences

Sel(T) == [op |-> "sel", table |-> T]     \* sqlite_query_record, query_next
Chg(T) == [op |-> "chg", table |-> T]     \* sqlite_execute

(***************************************************************************)
(* lock    mode argument of FileLock                                       *)
(* file    lock file: FILE_LOCK_NAME "msdb" or FILE_TZ_NAME "tz"           *)
(* tested  is the result of FileLock tested?                               *)
(* stmts   the SQL statements, in order                                    *)
(* failed  what a statement that finds or does nothing leads to: "return"  *)
(*         -1, the "next" statement, only then the next one ("retry"), the *)
(*         caller's "default", or a "stop" that still returns 0            *)
(* count   when the caller's counter is written: never, on "success", on   *)
(*         "both" outcomes of the query, "always"                          *)
(* closes  which handles the call passes to sqlite_disconn: that of an     *)
(*         "open" connection, the one that a "failed" sqlite3_open left     *)
(***************************************************************************)
Call(n, l, s) ==
  [name |-> n, lock |-> l, file |-> "msdb", tested |-> FALSE, stmts |-> s,
   failed |-> IF s[1].op = "sel" THEN "return" ELSE "next",
   count |-> "never", closes |-> {"open"}]

Get(n, T)     == Call(n, "r", <<Sel(T)>>)
List(n, T)    == [Get(n, T) EXCEPT !.count = "both"]
Put(n, T)     == Call(n, "w", <<Chg(T)>>)
Rewrite(n, T) == Call(n, "w", <<Chg(T), Chg(T)>>)
SkipGet(n, T) == [Call(n, "r", <<Sel(T), Sel(T)>>) EXCEPT !.failed = "next"]
CountGet(n, T) == [Call(n, "r", <<Sel(T), Sel(T)>>) EXCEPT !.count = "success"]
Tested(c)     == [c EXCEPT !.tested = TRUE]
Frees(c)      == [c EXCEPT !.closes = {"open", "failed"}]

-----------------------------------------------------------------------------
(* Faults the properties of MsdbCallProps must notice: variants of sections
   below, used by no specification. *)

WriteScheduleUnderR ==           \* 'r' where 'w' belongs
  {List("read_alarm_ins", "alarm_in"), Put("write_alarm_in", "alarm_in"),
   Get("read_alarm_in_schedule", "alarm_in_schedule"),
   [Rewrite("write_alarm_in_schedule", "alarm_in_schedule") EXCEPT !.lock = "r"]}

UserReadKeepsConnection ==       \* a return without sqlite_disconn
  {[Get("read_user", "user") EXCEPT !.closes = {}],
   Get("read_user_by_name", "user"), List("read_users", "user")}

CountOnlyOnSuccess ==            \* no *pCnt = 0 and no return -1 on no record
  {[List("read_holidays", "holiday") EXCEPT !.count = "success",
                                            !.failed = "next"],
   Put("write_holiday", "holiday")}

SetDeviceUnderTz ==              \* the wrong lock file
  {[Rewrite("db_set_device", "params") EXCEPT !.file = "tz"],
   Rewrite("db_set_device_oem", "params_oem")}

WriteEmailReports ==             \* -1 after the first of several updates
  {Call("read_email", "r", <<Sel("email"), Sel("email_receiver")>>),
   [Call("write_email", "w",
         <<Chg("email"), Chg("email_receiver"), Chg("email_receiver")>>)
      EXCEPT !.failed = "return"]}

-----------------------------------------------------------------------------
(* The calls, section by section of the file. *)

SqlCalls == {Put("db_run_sql", "any"), Get("db_query_sql", "any")}

OsdCalls ==
  {Get("read_osd", "osd"), Get("read_osd_name", "osd"),
   Put("write_osd", "osd"), Put("insert_osd", "osd")}

MotionCalls ==
  {List("read_osds", "osd"), Get("read_motion", "motion"),
   List("read_motions", "motion"), Put("insert_motion", "motion")}

MotionScheduleCalls ==
  {Put("write_motion", "motion"),
   Get("read_motion_schedule", "motion_schedule"),
   Put("delete_motion_schedule", "motion_schedule"),
   Rewrite("write_motion_schedule", "motion_schedule"),
   Get("read_motion_audible_schedule", "motion_audible_schedule")}

AlarmOutCalls ==
  {Put("delete_motion_audible_schedule", "motion_audible_schedule"),
   Rewrite("write_motion_audible_schedule", "motion_audible_schedule"),
   Get("read_alarm_out", "alarm_out"), List("read_alarm_outs", "alarm_out"),
   Put("write_alarm_out", "alarm_out")}

\* write_alarm_out_schedule takes the lock with 'r'.
AlarmOutScheduleCalls ==
  {Get("read_alarm_out_schedule", "alarm_out_schedule"),
   [Rewrite("write_alarm_out_schedule", "alarm_out_schedule")
      EXCEPT !.lock = "r"]}

VideoLossCalls ==
  {Get("read_video_lost", "video_loss"), List("read_video_losts", "video_loss"),
   Put("write_video_lost", "video_loss"), Put("insert_video_lost", "video_loss")}

VideoLossScheduleCalls ==
  {Get("read_video_loss_schedule", "video_loss_schedule"),
   Rewrite("write_video_loss_schedule", "video_loss_schedule"),
   Get("read_videoloss_audible_schedule", "videoloss_audible_schedule"),
   Rewrite("write_videoloss_audible_schedule", "videoloss_audible_schedule")}

CameraReadCalls ==
  {Put("disable_ip_camera", "camera"), Put("clear_cameras", "camera"),
   Get("read_cameras_type", "camera"), Get("read_camera", "camera")}

CameraListCalls ==
  {List("read_cameras", "camera"), List("read_poe_cameras", "camera")}

CameraWriteCalls ==
  {Put("insert_camera", "camera"), Put("write_camera_codec", "camera"),
   Put("write_camera", "camera"), Rewrite("write_cameras", "camera")}

\* read_records_ex goes on to the next channel when one has no record.
RecordReadCalls ==
  {Get("read_record", "record"), List("read_records", "record"),
   SkipGet("read_records_ex", "record")}

RecordWriteCalls ==
  {Rewrite("write_records", "record"), Put("write_record", "record"),
   Put("insert_record", "record"), Put("write_record_prev_post", "record")}

RecordScheduleCalls ==
  {Get("read_record_schedule", "record_schedule"),
   Rewrite("write_record_schedule", "record_schedule"),
   Put("reset_record_schedule", "record_schedule")}

HolidayCalls == {List("read_holidays", "holiday"), Put("write_holiday", "holiday")}

PtzPortCalls ==
  {Get("read_ptz_port", "ptz_port"), Put("write_ptz_port", "ptz_port"),
   List("read_ptz_ports", "ptz_port"), Get("read_alarm_in", "alarm_in")}

AlarmInCalls ==
  {List("read_alarm_ins", "alarm_in"), Put("write_alarm_in", "alarm_in"),
   Get("read_alarm_in_schedule", "alarm_in_schedule"),
   Rewrite("write_alarm_in_schedule", "alarm_in_schedule")}

AlarmInScheduleCalls ==
  {Get("read_alarmin_audible_schedule", "alarmin_audible_schedule"),
   Rewrite("write_alarmin_audible_schedule", "alarmin_audible_schedule"),
   Get("read_alarmin_ptz_schedule", "alarmin_ptz_schedule"),
   Rewrite("write_alarmin_ptz_schedule", "alarmin_ptz_schedule")}

UserReadCalls ==
  {Get("read_user", "user"), Get("read_user_by_name", "user"),
   List("read_users", "user")}

\* add_user looks for a free row and then updates that row.
UserWriteCalls ==
  {[Call("add_user", "w", <<Sel("user"), Chg("user")>>) EXCEPT !.failed = "return"],
   Put("write_user", "user"), Get("read_user_count", "user")}

DisplayCalls ==
  {Get("read_display", "display"), Get("read_display_oem", "display"),
   Put("write_display", "display")}

\* read_spots clears the counter on a failed connection too.
SpotCalls ==
  {[List("read_spots", "spot") EXCEPT !.count = "always"],
   Put("write_spot", "spot"), Get("read_time", "time"), Put("write_time", "time"),
   Get("read_pppoe", "pppoe")}

DdnsCalls ==
  {Put("write_pppoe", "pppoe"), Get("read_ddns", "ddns"), Put("write_ddns", "ddns"),
   Get("read_upnp", "upnp"), Put("write_upnp", "upnp")}

EmailCalls ==
  {Call("read_email", "r", <<Sel("email"), Sel("email_receiver")>>),
   Call("write_email", "w",
        <<Chg("email"), Chg("email_receiver"), Chg("email_receiver")>>)}

\* Both try an older set of columns when the statement fails.
NetworkCalls ==
  {[Call("read_network", "r", <<Sel("network"), Sel("network")>>)
      EXCEPT !.failed = "retry"],
   [Call("write_network", "w", <<Chg("network"), Chg("network")>>)
      EXCEPT !.failed = "retry"],
   Get("read_network_mode", "network")}

BondCalls ==
  {Get("read_network_bond", "network"), Get("read_network_muti", "network"),
   Put("write_network_bond", "network"), Put("write_network_muti", "network")}

PortCalls ==
  {Get("read_port", "network_more"), Put("write_port", "network_more"),
   Get("read_snmp", "snmp"), Put("write_snmp", "snmp")}

AudioLayoutCalls ==
  {List("read_audio_ins", "audio_in"), Put("write_audio_in", "audio_in"),
   Get("read_layout", "layout"), Put("write_layout", "layout")}

PtzSpeedCalls ==
  {List("read_ptz_speeds", "ptz_speed"), Get("read_ptz_speed", "ptz_speed"),
   Put("write_ptz_speed", "ptz_speed"), List("read_storages", "storage")}

StorageTourCalls ==
  {Get("read_storage", "storage"), Put("write_storage", "storage"),
   Get("read_ptz_tour", "ptz_tour"), Rewrite("write_ptz_tour", "ptz_tour")}

\* get_param_int gives the caller's default for whatever goes wrong.
ParamCalls ==
  {Get("get_param_value", "params"),
   [Get("get_param_int", "params") EXCEPT !.failed = "default"],
   Put("set_param_value", "params"), Put("set_param_int", "params"),
   Put("add_param_value", "params"), Put("add_param_int", "params")}

ParamOemCalls ==
  {Get("check_param_key", "params"), Get("get_param_oem_value", "params_oem"),
   [Get("get_param_oem_int", "params_oem") EXCEPT !.failed = "default"],
   Put("set_param_oem_value", "params_oem"), Put("set_param_oem_int", "params_oem")}

AddParamOemCalls ==
  {Put("add_param_oem_value", "params_oem"), Put("add_param_oem_int", "params_oem"),
   Get("check_param_oem_key", "params_oem")}

\* The camera protocol calls test FileLock; count(*) first, then the rows.  A
\* sqlite_conn that fails is one more break to the sqlite_disconn at the end.
ProtocolCalls ==
  {Frees(Tested(CountGet("read_ipc_protocols", "protocol"))),
   Tested(Get("read_ipc_protocol", "protocol")),
   Put("write_ipc_protocol", "protocol"), Put("delete_ipc_protocols", "protocol")}

ModelReadCalls ==
  {Put("insert_ipc_protocol", "protocol"),
   Frees(Tested(CountGet("read_ipc_models", "model"))),
   Frees(Tested(CountGet("read_ipc_models_by_protocol", "model")))}

ModelCalls ==
  {Tested(Get("read_ipc_model", "model")), Tested(Get("read_ipc_default_model", "model")),
   Put("write_ipc_model", "model"), Put("insert_ipc_model", "model"),
   Put("delete_ipc_models", "model")}

\* write_mosaic is the one writer that reports a statement that failed.
MosaicCalls ==
  {Tested(Get("read_mosaic", "mosaic")),
   Tested([Get("read_mosaics", "mosaic") EXCEPT !.count = "success"]),
   Tested([Put("write_mosaic", "mosaic") EXCEPT !.failed = "return"])}

MaintainCalls ==
  {Get("read_disk_maintain_info", "disk_maintain"),
   Put("write_disk_maintain_info", "disk_maintain"),
   Get("read_p2p_info", "p2p"), Put("write_p2p_info", "p2p"),
   Get("read_privacy_mask", "privacy_mask")}

PrivacyMaskCalls ==
  {List("read_privacy_masks", "privacy_mask"),
   Rewrite("write_privacy_mask", "privacy_mask"),
   Rewrite("insert_privacy_mask", "privacy_mask")}

\* read_alarm_pids returns 0 whatever its two queries say.
AlarmPidCalls ==
  {[CountGet("read_alarm_pids", "token") EXCEPT !.failed = "stop"],
   Get("read_alarm_pid", "token"), Put("write_alarm_pid", "token"),
   Put("update_alarm_pid", "token")}

CameraIoCalls ==
  {Get("read_trigger_alarms", "trigger_alarms"),
   Put("write_trigger_alarms", "trigger_alarms"),
   List("read_cameraios", "cameraio"), Get("read_cameraio", "cameraio"),
   Put("insert_cameraio", "cameraio")}

VolumeCalls ==
  {Put("write_cameraio", "cameraio"), List("read_volumedetects", "volumedetect"),
   Get("read_volumedetect", "volumedetect"),
   Put("write_volumedetect", "volumedetect"),
   Put("insert_volume_detect", "volumedetect")}

\* 25 updates, one for each parameter of the device.
SetDeviceCalls ==
  {Rewrite("db_set_device", "params"), Rewrite("db_set_device_oem", "params_oem")}

\* 25 queries, those without a record are passed over.
GetDeviceCalls ==
  {SkipGet("db_get_device", "params"), SkipGet("db_get_device_oem", "params_oem")}

\* The one call under the other lock file.
TzCalls == {[Get("db_get_tz_filename", "zonemap") EXCEPT !.file = "tz"]}

OemUserCalls ==
  {Get("db_read_user_by_name", "user"), List("read_users_oem", "user"),
   Put("write_autoreboot_conf", "auto_reboot"),
   Get("read_autoreboot_conf", "auto_reboot")}

MaskAreaCalls ==
  {Get("read_privacy_mask_by_areaid", "privacy_mask"),
   Put("write_privacy_mask_by_areaid", "privacy_mask"),
   Get("read_motion_email_schedule", "motion_email_schedule"),
   Rewrite("write_motion_email_schedule", "motion_email_schedule")}

PopupScheduleCalls ==
  {Get("read_motion_popup_schedule", "motion_popup_schedule"),
   Rewrite("write_motion_popup_schedule", "motion_popup_schedule"),
   Get("read_videoloss_email_schedule", "videoloss_email_schedule"),
   Rewrite("write_videoloss_email_schedule", "videoloss_email_schedule")}

AlarmInExCalls ==
  {Get("read_alarmin_email_schedule", "alarmin_email_schedule"),
   Rewrite("write_alarmin_email_schedule", "alarmin_email_schedule"),
   Get("read_alarm_in_ex", "alarm_in")}

AlarmInsExCalls ==
  {List("read_alarm_ins_ex", "alarm_in"), Put("write_alarm_in_ex", "alarm_in"),
   Put("write_ssl_params", "https"), Get("read_ssl_params", "https")}

EncryptedListCalls ==
  {Put("write_encrypted_list", "encrypted_list"),
   Get("read_encrypted_list", "encrypted_list"), Get("check_table_key", "any")}

\* insert_disk returns without sqlite_disconn.
DiskCalls ==
  {List("read_disks", "disk"), Get("read_disk", "disk"), Put("write_disk", "disk"),
   [Put("insert_disk", "disk") EXCEPT !.closes = {}]}

GroupCalls == {List("read_groups", "diskGroup"), Put("write_group_st", "diskGroup")}

EffectiveCalls == {Get("read_smart_event_effective_schedule", "vca_effective_schedule")}
EffectiveWrite == {Rewrite("write_smart_event_effective_schedule", "vca_effective_schedule")}
AudibleCalls   == {Get("read_smart_event_audible_schedule", "vca_audible_schedule")}
AudibleWrite   == {Rewrite("write_smart_event_audible_schedule", "vca_audible_schedule")}
MailCalls      == {Get("read_smart_event_mail_schedule", "vca_mail_schedule")}
MailWrite      == {Rewrite("write_smart_event_mail_schedule", "vca_mail_schedule")}
PopupCalls     == {Get("read_smart_event_popup_schedule", "vca_popup_schedule")}
PopupWrite     == {Rewrite("write_smart_event_popup_schedule", "vca_popup_schedule")}

SmartEventCalls == {Get("read_smart_event", "vca_event"), Put("write_smart_event", "vca_event")}

MotionEffectiveCalls ==
  {Rewrite("write_motion_effective_schedule", "motion_effective_schedule"),
   Get("read_motion_effective_schedule", "motion_effective_schedule")}

\* One query per event type: the types without a record are passed over.
SmartEventsOfChannel ==
  {SkipGet("read_smart_events", "vca_event"),
   SkipGet("read_smart_event_effective_schedules", "vca_effective_schedule")}

SchedulesOfChannel ==
  {SkipGet("read_smart_event_audible_schedules", "vca_audible_schedule"),
   SkipGet("read_smart_event_mail_schedules", "vca_mail_schedule")}

SmartEventsOfAll ==
  {SkipGet("read_smart_event_popup_schedules", "vca_popup_schedule"),
   SkipGet("read_smart_event_all_chns", "vca_event")}

SchedulesOfAll ==
  {SkipGet("read_smart_event_effective_schedules_all_chns", "vca_effective_schedule"),
   SkipGet("read_smart_event_audible_schedules_all_chns", "vca_audible_schedule")}

MailPopupOfAll ==
  {SkipGet("read_smart_event_mail_schedules_all_chns", "vca_mail_schedule"),
   SkipGet("read_smart_event_popup_schedules_all_chns", "vca_popup_schedule")}

DefaultScheduleCalls ==
  {Call("write_smart_event_effective_schedule_default", "w",
        <<Chg("vca_effective_schedule"), Chg("vca_effective_schedule"),
          Chg("motion_effective_schedule"), Chg("motion_effective_schedule")>>)}

FailoverCalls ==
  {Get("read_failover", "failover_list"), List("read_failovers", "failover_list"),
   Put("write_failover", "failover_list")}

-----------------------------------------------------------------------------
Catalog ==
  SqlCalls \cup OsdCalls \cup MotionCalls \cup MotionScheduleCalls
  \cup AlarmOutCalls \cup AlarmOutScheduleCalls \cup VideoLossCalls
  \cup VideoLossScheduleCalls \cup CameraReadCalls \cup CameraListCalls
  \cup CameraWriteCalls \cup RecordReadCalls \cup RecordWriteCalls
  \cup RecordScheduleCalls \cup HolidayCalls \cup PtzPortCalls
  \cup AlarmInCalls \cup AlarmInScheduleCalls \cup UserReadCalls
  \cup UserWriteCalls \cup DisplayCalls \cup SpotCalls \cup DdnsCalls
  \cup EmailCalls \cup NetworkCalls \cup BondCalls \cup PortCalls
  \cup AudioLayoutCalls \cup PtzSpeedCalls \cup StorageTourCalls
  \cup ParamCalls \cup ParamOemCalls \cup AddParamOemCalls
  \cup ProtocolCalls \cup ModelReadCalls \cup ModelCalls \cup MosaicCalls
  \cup MaintainCalls \cup PrivacyMaskCalls \cup AlarmPidCalls
  \cup CameraIoCalls \cup VolumeCalls \cup SetDeviceCalls
  \cup GetDeviceCalls \cup TzCalls \cup OemUserCalls \cup MaskAreaCalls
  \cup PopupScheduleCalls \cup AlarmInExCalls \cup AlarmInsExCalls
  \cup EncryptedListCalls \cup DiskCalls \cup GroupCalls
  \cup EffectiveCalls \cup EffectiveWrite \cup AudibleCalls
  \cup AudibleWrite \cup MailCalls \cup MailWrite \cup PopupCalls
  \cup PopupWrite \cup SmartEventCalls \cup MotionEffectiveCalls
  \cup SmartEventsOfChannel \cup SchedulesOfChannel \cup SmartEventsOfAll
  \cup SchedulesOfAll \cup MailPopupOfAll \cup DefaultScheduleCalls
  \cup FailoverCalls

Tables(c) == {c.stmts[i].table : i \in DOMAIN c.stmts}
Changed(c) == {c.stmts[i].table : i \in {j \in DOMAIN c.stmts : c.stmts[j].op = "chg"}}

\* One of the two calls changes a table the other one uses.
Collide(c, d) == \/ Changed(c) \cap Tables(d) # {}
                 \/ Changed(d) \cap Tables(c) # {}
=============================================================================
