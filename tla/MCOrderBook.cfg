\* Up to five orders at three prices on either side.
SPECIFICATION Spec
CONSTANTS
    PriceRange = {1, 2, 3}
    MaxArrivals = 5
INVARIANTS
    SideIsStableSort
