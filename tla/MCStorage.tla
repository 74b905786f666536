------------------------------ MODULE MCStorage ------------------------------
(* Two calls on an NVMe controller and an ATA drive, on two AHCI ports of one   *)
(* controller, on a port and a RAM disk, and on a USB disk of either protocol;  *)
(* one call on two USB disks that come and go.                                  *)
EXTENDS Storage

Machine(bus, links, rams, sectors, calls) ==
    [bus |-> bus, links |-> links, rams |-> rams, sectors |-> sectors, calls |-> calls]

MCMachines ==
    {Machine(<<"nvme1", "ata1">>, {}, {}, 2, 2),
     Machine(<<"port1", "port2">>, {}, {}, 2, 2),
     Machine(<<"port1">>, {}, {"ram1"}, 2, 2),
     Machine(<<>>, {"stick"}, {}, 1, 2),
     Machine(<<>>, {"box"}, {}, 1, 2),
     Machine(<<>>, {"stick", "box"}, {}, 2, 1)}

UnitKind == [nvme1 |-> "nvme", port1 |-> "ahci", port2 |-> "ahci", ata1 |-> "ata",
             stick |-> "bot", box |-> "uas", ram1 |-> "ram"]
UnitChannel == [nvme1 |-> "bdf1", port1 |-> "bdf2", port2 |-> "bdf2", ata1 |-> "1f0",
                stick |-> "link1", box |-> "link2", ram1 |-> "memory"]
=============================================================================
