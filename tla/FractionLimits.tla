--------------------------- MODULE FractionLimits ---------------------------
(***************************************************************************)
(* From the shares of an allocation to the limits HAMi-core enforces in    *)
(* the container (src/labgpu/fraction.py).                                 *)
(*                                                                         *)
(* Shares are counted in quanta, PerDevice of them are a whole GPU, and    *)
(* device ids are numbers: the NVML indices the plugin uses.  Fractions    *)
(* are exact; the code's Decimals are, to 28 digits.                       *)
(***************************************************************************)
EXTENDS Integers, FiniteSetsExt

CONSTANTS PerDevice,   \* shares_per_device, in quanta
          MiB,         \* bytes in the unit of a memory limit
          Reserved     \* reserved_memory, in bytes

ASSUME FractionAssumption ==
    /\ PerDevice \in Nat \ {0}
    /\ MiB \in Nat \ {0}
    /\ Reserved \in Nat

NoLimit == -1
Greater(a, b) == IF a > b THEN a ELSE b

Whole(share) == share >= PerDevice

RoundedUp(share, total) ==                        \* mutant: rounds up to the next MiB
    Greater(((share * total) \div PerDevice - Reserved + MiB - 1) \div MiB, 1) * MiB
Unclamped(share, total) ==                        \* mutant: no least limit
    (((share * total) \div PerDevice - Reserved) \div MiB) * MiB
MemoryLimit(share, total) ==
    Greater(((share * total) \div PerDevice - Reserved) \div MiB, 1) * MiB

\* ceil(fraction * 100), for fractions below one
SmLimit(share) == (100 * share + PerDevice - 1) \div PerDevice

ActiveDevices(shares) == {d \in DOMAIN shares : shares[d] > 0}

IndexOfAll(shares, d) == Cardinality({e \in DOMAIN shares : e < d})  \* mutant: counts devices without a share
LocalIndex(shares, d) == Cardinality({e \in ActiveDevices(shares) : e < d})

\* One DeviceLimit per device with a share; total gives the memory of each device.
ComputeLimits(shares, total) ==
    [d \in ActiveDevices(shares) |->
        [index |-> LocalIndex(shares, d),
         mem   |-> IF Whole(shares[d]) THEN NoLimit ELSE MemoryLimit(shares[d], total[d]),
         sm    |-> IF Whole(shares[d]) THEN NoLimit ELSE SmLimit(shares[d])]]

Fractional(limits) == {d \in DOMAIN limits : limits[d].mem # NoLimit}

\* CUDA_DEVICE_SM_LIMIT is one number for all the GPUs of the container.
SmOf(limits) == IF Fractional(limits) = {} THEN NoLimit
                ELSE Max({limits[d].sm : d \in Fractional(limits)})

\* CUDA_DEVICE_MEMORY_LIMIT_<index> for each index, and CUDA_DEVICE_SM_LIMIT.
HamiEnviron(limits) ==
    [mem |-> [i \in {limits[d].index : d \in Fractional(limits)} |->
                 limits[CHOOSE d \in Fractional(limits) : limits[d].index = i].mem],
     sm  |-> SmOf(limits)]

=============================================================================
