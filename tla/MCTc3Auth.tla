------------------------------ MODULE MCTc3Auth ------------------------------
(* Instance of Tc3Auth: two configurations of two accounts, the first      *)
(* without a sub-domain, in three ways to end a line and in two orders of  *)
(* the lines: that of ddns_config.txt and one with the sub-domain behind   *)
(* the echo services.                                                      *)
EXTENDS Tc3Auth

Setting(id, secret, name, sub) ==
    [k \in Key |->
        CASE k = "keyid" -> id
          [] k = "key" -> secret
          [] k = "domain_name" -> name
          [] k = "domain_subname" -> sub
          [] OTHER -> "url"]

MCSettings == {Setting("id1", "secret1", "dearl.top", ""),
               Setting("id2", "secret2", "liao.top", "video")}
MCAccounts == [id \in {"id1", "id2"} |-> IF id = "id1" THEN "secret1" ELSE "secret2"]
MCRests == {<<>>, <<"CR">>, <<"semicolon", "other", "CR">>}
MCOrders == {<<"key", "keyid", "domain_name", "domain_subname",
               "check_ip_url_ipv4", "check_ip_url_ipv6">>,
             <<"domain_name", "other", "check_ip_url_ipv4", "check_ip_url_ipv6",
               "domain_subname", "keyid", "key">>}
=============================================================================
