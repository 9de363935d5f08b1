----------------------------- MODULE ParamTables -----------------------------
(***************************************************************************)
(* Which parameter each identifier of the protocol and each SMS keyword     *)
(* writes and which one it reads: the cases of WriteLbsCfgPara,             *)
(* ReadLbsCfgPara, handle_keyword4ms and handle_common4ms as functions from *)
(* an identifier to a member of DEVICE_PARAMS.                              *)
(***************************************************************************)
EXTENDS SequencesExt

\* Two tables in one: what @@ is, in a form that can be expanded in a proof.
Joined(f, g) == [x \in DOMAIN f \cup DOMAIN g |-> IF x \in DOMAIN f THEN f[x] ELSE g[x]]

\* The cases that copy the value and do nothing else.
TimeWrites ==
    [eHtTime |-> "heartbeat_interval", eTcptime |-> "tcp_ack_timeout",
     eTcpnum |-> "tcp_retrans_times", eSMSTime |-> "sms_ack_timeout",
     eSMSNum |-> "sms_retrans_times"]

ReportWrites ==
    [eRpttime_def |-> "default_reporttime", eRpttime_unlog |-> "unlogin_reporttime",
     eRpttime_sleep |-> "sleep_reporttime", eRpttime_emergency |-> "urgent_reporttime",
     eRptDistanc_def |-> "default_reportdistance", eRptDistanc_sleep |-> "sleep_reportdistance",
     eRptDistanc_unlog |-> "unlogin_reportdistance",
     eRptDistanc_emergency |-> "urgent_reportdistance", eRptCog |-> "corner_reportangle"]

TelWrites ==
    [eServTel |-> "monitor_platform_num", eResetTel |-> "reset_num",
     eFactryTel |-> "restore_factory_settings_num", eSMSTel |-> "monitor_platform_sms_num",
     eAlarmSMSTel |-> "terminal_sms_num"]

AlarmWrites ==
    [eAlarmmaskword |-> "alarm_mask", etxtSMSAlarm |-> "alarm_send_sms_mask",
     eOverspeed |-> "max_speed", eOverspeedtime |-> "speed_duration",
     eDrivTime |-> "continuous_drive_time_threshold",
     eDrivTime_day |-> "day_add_drive_time_threshold", eRestTime_min |-> "min_rest_time",
     eStopcarTime_max |-> "max_park_time", eOdometer |-> "vehicle_odometer"]

PlainWrites == Joined(Joined(TimeWrites, ReportWrites), Joined(TelWrites, AlarmWrites))

PortWrites == [eTcpPort |-> "server_tcp_port", eUdpPort |-> "server_udp_port"]

\* What the platform has registered the vehicle as: a change starts a new registration.
IdentityWrites ==
    [ePrivic |-> "vehicle_province_id", eCity |-> "vehicle_city_id",
     eCarid |-> "vehicle_license", eCarclor |-> "plate_color"]

\* Checked, and then set nowhere: no case of WriteLbsCfgPara, or one that wants another length.
NeverWritten ==
    {"eUdptime", "eUdpnum", "eAPN", "eAPN_sub", "eAPNUser", "eAPNPwd", "eAPNUser_sub", "eAPNPwd_sub",
     "eIP_sub", "eMonitTel", "eSpeclSMSTel", "eAnswerType", "eMaxCalltime", "eMaxCalltime_month",
     "eAlarmPhoto", "eAlarmPhotoStor", "eKeyAlarm", "eRptStrategy", "eRptType"}

ServerWrites == Joined(PortWrites, [eIP |-> "m_server_ip"])

Writes == Joined(PlainWrites, Joined(ServerWrites, IdentityWrites))

\* The identifiers whose value ParaConvertandSet looks at before it accepts them.
ValueChecked ==
    DOMAIN TimeWrites \cup DOMAIN ReportWrites \cup DOMAIN TelWrites \cup DOMAIN AlarmWrites
    \cup DOMAIN PortWrites
    \cup {"eIP", "eIP_sub", "eUdptime", "eUdpnum", "eMonitTel", "eSpeclSMSTel", "eAnswerType",
          "eMaxCalltime", "eMaxCalltime_month", "eAlarmPhoto", "eAlarmPhotoStor", "eKeyAlarm",
          "eRptStrategy", "eRptType"}

----------------------------------------------------------------------------

ServerReads ==
    [eIP |-> "m_server_ip", eTcpPort |-> "server_tcp_port", eUdpPort |-> "server_udp_port",
     eIP_sub |-> "b_server_ip", eAPN |-> "m_apn_name", eAPN_sub |-> "b_apn_username",
     eAPNUser |-> "m_apn_username", eAPNPwd |-> "m_apn_password",
     eAPNUser_sub |-> "b_apn_username", eAPNPwd_sub |-> "b_apn_password"]

ReportReads ==
    [eHtTime |-> "heartbeat_interval", eTcptime |-> "tcp_ack_timeout",
     eTcpnum |-> "tcp_retrans_times", eUdptime |-> "udp_ack_timeout",
     eUdpnum |-> "udp_retrans_times", eSMSTime |-> "sms_ack_timeout",
     eSMSNum |-> "sms_retrans_times", eRptStrategy |-> "report_strategy",
     eRptType |-> "report_type", eRpttime_def |-> "default_reporttime",
     eRpttime_unlog |-> "unlogin_reporttime", eRpttime_sleep |-> "sleep_reporttime",
     eRpttime_emergency |-> "urgent_reporttime", eRptDistanc_def |-> "default_reportdistance",
     eRptDistanc_sleep |-> "sleep_reportdistance",
     eRptDistanc_unlog |-> "unlogin_reportdistance",
     eRptDistanc_emergency |-> "urgent_reportdistance", eRptCog |-> "corner_reportangle"]

\* The case of eOverspeedtime falls through into the one of eDrivTime.
AlarmReads ==
    [eResetTel |-> "reset_num", eFactryTel |-> "restore_factory_settings_num",
     eAlarmSMSTel |-> "terminal_sms_num", eAlarmmaskword |-> "alarm_mask",
     etxtSMSAlarm |-> "alarm_send_sms_mask", eOverspeed |-> "max_speed",
     eOverspeedtime |-> "continuous_drive_time_threshold",
     eDrivTime |-> "continuous_drive_time_threshold",
     eDrivTime_day |-> "day_add_drive_time_threshold", eRestTime_min |-> "min_rest_time",
     eStopcarTime_max |-> "max_park_time"]

VehicleReads ==
    [eOdometer |-> "vehicle_odometer", ePrivic |-> "vehicle_province_id",
     eCity |-> "vehicle_city_id", eCarid |-> "vehicle_license", eCarclor |-> "plate_color"]

\* An identifier with no case leaves length and value of the parameter read before it.
Reads == Joined(Joined(ServerReads, ReportReads), Joined(AlarmReads, VehicleReads))

\* The parameters of get_dev_param_rsp_buildbody, in the order of the answer.
FirstAnswers ==
    <<"eHtTime", "eTcptime", "eTcpnum", "eUdptime", "eUdpnum", "eAPNUser", "eAPNPwd", "eIP",
      "eAPNUser_sub", "eAPNPwd_sub", "eIP_sub", "eTcpPort", "eUdpPort", "eRptStrategy", "eRptType">>

ReportAnswers ==
    <<"eRpttime_def", "eRpttime_sleep", "eRpttime_unlog", "eRpttime_emergency", "eRptDistanc_def",
      "eRptDistanc_unlog", "eRptDistanc_emergency", "eRptDistanc_sleep", "eRptCog", "eServTel",
      "eResetTel", "eFactryTel", "eSMSTel", "eAlarmSMSTel">>

AlarmAnswers ==
    <<"eAnswerType", "eMaxCalltime", "eMaxCalltime_month", "eMonitTel", "eSpeclSMSTel",
      "eAlarmmaskword", "etxtSMSAlarm", "eAlarmPhoto", "eAlarmPhotoStor", "eKeyAlarm", "eOverspeed",
      "eOverspeedtime", "eDrivTime", "eDrivTime_day", "eRestTime_min", "eStopcarTime_max">>

\* eImagClor is answered with four zero bytes.
LastAnswers ==
    <<"eImagQuality", "eImagBright", "eImagContrast", "eImagSatuatn", "eImagClor", "eOdometer",
      "ePrivic", "eCity", "eCarid", "eCarclor">>

Answers == FirstAnswers \o ReportAnswers \o AlarmAnswers \o LastAnswers

----------------------------------------------------------------------------
\* The SMS keywords, named as in e_keyword.

TimeKeywords ==
    [e_HB |-> "heartbeat_interval", e_RSP_TCP |-> "tcp_ack_timeout",
     e_RSP_UDP |-> "udp_ack_timeout", e_Retry_TCP |-> "tcp_retrans_times",
     e_Retry_UDP |-> "udp_retrans_times", e_Retry_SMS |-> "sms_retrans_times"]

ReportKeywords ==
    [e_Rpt_strategy |-> "report_strategy", e_Rpttime_unlog |-> "unlogin_reporttime",
     e_Rpttime_sleep |-> "sleep_reporttime", e_Rpttime_alarm |-> "urgent_reporttime",
     e_Rpttime_def |-> "default_reporttime", e_Rptdis_unlog |-> "unlogin_reportdistance",
     e_Rptdis_sleep |-> "sleep_reportdistance", e_Rptdis_def |-> "default_reportdistance",
     e_Rptdis_alarm |-> "urgent_reportdistance", e_Rptcog |-> "corner_reportangle"]

TelKeywords ==
    [e_servertel |-> "monitor_platform_num", e_resettel |-> "reset_num",
     e_factorysettel |-> "restore_factory_settings_num", e_alarmsmstel |-> "terminal_sms_num"]

AlarmKeywords ==
    [e_swh_alarmmask |-> "alarm_mask", e_swh_alarmsms |-> "alarm_send_sms_mask",
     e_overspeed |-> "max_speed", e_overspeedtime |-> "speed_duration",
     e_daydrivetime |-> "day_add_drive_time_threshold",
     e_tireddrivetime |-> "continuous_drive_time_threshold", e_min_resttime |-> "min_rest_time",
     e_max_parktime |-> "max_park_time"]

UpdateKeywords ==
    [e_UPIP |-> "update_server_ip", e_UPPORT |-> "update_server_port", e_UPFTPUSR |-> "ftpusr",
     e_UPFTPPWD |-> "ftppwd", e_UPPROG_NAME |-> "ftp_prog_name", e_OIL_AMOUNT |-> "def_oil",
     e_MAX_OIL_CHANGE |-> "def_oil_shreshold"]

PlainKeywords ==
    Joined(Joined(TimeKeywords, ReportKeywords), Joined(TelKeywords, Joined(AlarmKeywords, UpdateKeywords)))

ServerKeywords ==
    [e_IP |-> "m_server_ip", e_TCPPORT |-> "server_tcp_port", e_UDPPORT |-> "server_udp_port"]

IdentityKeywords ==
    [e_TEL |-> "term_tel_num", e_provincID |-> "vehicle_province_id", e_cityID |-> "vehicle_city_id",
     e_carID |-> "vehicle_license", e_carcolor |-> "plate_color", e_DEVID |-> "term_id"]

Keywords == Joined(PlainKeywords, Joined(ServerKeywords, IdentityKeywords))

\* The answer to an SMS tells the parameter of its keyword.
FirstShown ==
    [e_HB |-> "heartbeat_interval", e_RSP_TCP |-> "tcp_ack_timeout",
     e_RSP_UDP |-> "udp_ack_timeout", e_RSP_SMS |-> "sms_ack_timeout",
     e_Retry_TCP |-> "tcp_retrans_times", e_Retry_UDP |-> "udp_retrans_times",
     e_Retry_SMS |-> "sms_retrans_times", e_IP |-> "m_server_ip",
     e_TCPPORT |-> "server_tcp_port", e_UDPPORT |-> "server_udp_port", e_TEL |-> "term_tel_num",
     e_Rpt_strategy |-> "report_strategy", e_Rpttime_unlog |-> "unlogin_reporttime",
     e_Rpttime_sleep |-> "sleep_reporttime", e_Rpttime_alarm |-> "urgent_reporttime",
     e_Rpttime_def |-> "default_reporttime", e_Rptdis_unlog |-> "unlogin_reportdistance",
     e_Rptdis_sleep |-> "sleep_reportdistance", e_Rptdis_def |-> "default_reportdistance",
     e_Rptdis_alarm |-> "urgent_reportdistance", e_Rptcog |-> "corner_reportangle",
     e_servertel |-> "monitor_platform_num", e_resettel |-> "reset_num",
     e_factorysettel |-> "restore_factory_settings_num", e_alarmsmstel |-> "terminal_sms_num"]

LastShown ==
    [e_swh_alarmmask |-> "alarm_mask", e_swh_alarmsms |-> "alarm_send_sms_mask",
     e_overspeed |-> "max_speed", e_overspeedtime |-> "speed_duration",
     e_min_resttime |-> "min_rest_time", e_max_parktime |-> "max_park_time",
     e_daydrivetime |-> "day_add_drive_time_threshold",
     e_tireddrivetime |-> "continuous_drive_time_threshold",
     e_provincID |-> "vehicle_province_id", e_cityID |-> "vehicle_city_id",
     e_carID |-> "vehicle_license", e_carcolor |-> "plate_color", e_UPIP |-> "update_server_ip",
     e_UPPORT |-> "update_server_port", e_UPFTPUSR |-> "ftpusr", e_UPFTPPWD |-> "ftppwd",
     e_UPPROG_NAME |-> "ftp_prog_name", e_SNUMS |-> "term_id", e_DEVID |-> "term_id",
     e_OIL_AMOUNT |-> "def_oil", e_MAX_OIL_CHANGE |-> "def_oil_shreshold"]

Shown == Joined(FirstShown, LastShown)

Field == {Reads[id] : id \in DOMAIN Reads} \cup {Writes[id] : id \in DOMAIN Writes}
         \cup {Shown[key] : key \in DOMAIN Shown}
=============================================================================
